---- MODULE Spec2Model ----
(***************************************************************************)
(* A model of openclaw-relay's event-to-action pipeline:                   *)
(*   - ratelimit.Limiter (Allow, cleanup) with its mutex and clock,        *)
(*   - webhook.TrelloHandler (findRule, matchCondition, renderMessage,     *)
(*     ServeHTTP),                                                         *)
(*   - gmail.Poller (poll, evaluateRules, matchRule, executeNotify).       *)
(* Strings that the code inspects character by character are sequences of  *)
(* one-character strings; templates are sequences of lexical tokens.       *)
(***************************************************************************)
EXTENDS Integers, Sequences, FiniteSets, TLC

(***************************************************************************)
(* Bounds of the model.                                                    *)
(***************************************************************************)
MaxTime == 4

MaxCalls == 3

(***************************************************************************)
(* ratelimit.Limiter                                                       *)
(***************************************************************************)
\* Limiter.ttl, in clock ticks (the relay constructs it with 5 minutes).
TTL == 2

keyMove == "trello:c1:updateCard"

keyComment == "trello:c1:commentCard"

Keys == {keyMove, keyComment}

\* A key made of the event type only.
GhKeyPerEvent(event, pr) == "github:" \o event \o ":" \o ToString(7)

\* fmt.Sprintf("github:%s:%d", ghEvent, prNumber), the key of a GitHub delivery.
GhKey(event, pr) == "github:" \o event \o ":" \o ToString(pr)

\* The keys of the GitHub deliveries served below.
GhKeys == {GhKey("check_run", 7), GhKey("workflow_run", 7), GhKey("workflow_run", 8),
           GhKey("pull_request_review", 7)}

\* Run hands one Limiter to both webhook handlers: the keys its map may hold.
MapKeys == Keys \cup GhKeys

Procs == {"p1", "p2"}

\* The cleanup goroutine's identity as a holder of Limiter.mu.
Sweeper == "gc"

NoOwner == "none"

\* A key that is not in the map Limiter.seen.
Absent == -1

VARIABLES
    now,        \* the monotonic clock read by time.Now / time.Since
    mu,         \* holder of Limiter.mu, or NoOwner
    seen,       \* Limiter.seen: key -> timestamp, Absent when not in the map
    pc,         \* per caller: position inside Limiter.Allow
    callKey,    \* per caller: the key argument of the call in progress
    callConc,   \* per caller: whether it was invoked while another call on its key was in progress
    callChk,    \* per caller: clock value read by time.Since in the call
    hist,       \* completed Allow calls, in the order they took effect
    shadow,     \* the map of a limiter fed the same calls whose cleanup never runs
    cpc,        \* position of the cleanup goroutine
    wake,       \* earliest clock value at which the cleanup's Sleep returns
    todo        \* keys the cleanup's range loop has still to visit

VARIABLES
    mCond,      \* matchCondition's condition argument, a string
    mList,      \* matchCondition's listName argument, a string
    mParts,     \* number of clauses the condition was written with
    mDone,      \* whether matchCondition has been called and has returned
    mRes        \* the value it returned

VARIABLES
    tTmpl,      \* renderMessage's tmpl argument, a sequence of template tokens
    tData,      \* renderMessage's data argument, a map from field token to string
    tDone,      \* whether renderMessage has been called and has returned
    tOut        \* the string it returned

VARIABLES
    rules,      \* h.Config.Trello.Rules, in declared order
    resp        \* the latest request served by a webhook handler and its outcome

VARIABLES
    secret,     \* Config.Trello.Secret
    ghSecret,   \* Config.GitHub.Secret
    ghMode      \* Config.GitHub.NotifyMode

VARIABLES
    mailRules,  \* p.rules, in declared order
    cursor,     \* the HistoryID in the poller's state file, NoCursor when it cannot be read
    ppc,        \* where the poller goroutine is
    pHID,       \* poll's state.HistoryID as loaded
    pNew,       \* poll's newHID
    pMsgs,      \* poll's msgs
    pIdx,       \* index of the next message of msgs to evaluate
    sent,       \* the gateway calls made in the current tick, in order
    pKind,      \* how the current tick went
    pWrite,     \* outcome of the tick's write of the cursor
    tickBuf,    \* whether the ticker's channel holds a fire not yet received
    cancelled,  \* whether ctx has been cancelled
    notified,   \* ids of the messages a gateway call was made for in earlier ticks
    lost        \* whether a crash left entries behind the cursor unevaluated

VARIABLES
    mrIn,       \* the match and the message matchRule is called with
    mrOut,      \* what matchRule returned
    auIn,       \* the configured token and the request the middleware is called with
    auOut,      \* what the middleware did with the request
    sfIn,       \* the account emails of the pollers Run starts
    sfOut       \* each poller's stateFile() and the pollers that wrote each file

VARIABLES
    stateToEmail,   \* GoogleAuth.stateToEmail: the email each state was issued for
    fresh,          \* the states a login issued that no callback has accepted since
    googleTokens,   \* the emails store.SaveGoogle has saved a token for
    oaResp          \* the last answer of handleLogin or handleCallback

limVars == <<now, mu, seen, pc, callKey, callConc, callChk, hist, shadow, cpc, wake, todo>>

matchVars == <<mCond, mList, mParts, mDone, mRes>>

renderVars == <<tTmpl, tData, tDone, tOut>>

trelloVars == <<rules, resp>>

cfgVars == <<secret, ghSecret, ghMode>>

fnVars == <<mrIn, mrOut, auIn, auOut, sfIn, sfOut>>

oaVars == <<stateToEmail, fresh, googleTokens, oaResp>>

pollVars == <<mailRules, cursor, ppc, pHID, pNew, pMsgs, pIdx, sent, pKind, pWrite,
              tickBuf, cancelled, notified, lost>>

\* What the steps inside a tick leave alone besides the tick's own variables.
loopVars == <<tickBuf, cancelled, notified, lost>>

vars == <<limVars, matchVars, renderVars, trelloVars, pollVars, cfgVars, fnVars, oaVars>>

\* The variables the limiter's steps leave alone.
notLimVars == <<matchVars, renderVars, trelloVars, pollVars, cfgVars, fnVars, oaVars>>

\* The variables the steps of matchCondition's callers leave alone.
notMatchVars == <<limVars, renderVars, trelloVars, pollVars, cfgVars, fnVars, oaVars>>

\* The variables the steps of renderMessage's callers leave alone.
notRenderVars == <<limVars, matchVars, trelloVars, pollVars, cfgVars, fnVars, oaVars>>

\* The variables the Trello handler leaves alone, the limiter's apart.
notTrelloVars == <<matchVars, renderVars, pollVars, cfgVars, fnVars, oaVars>>

\* The variables the mail poller leaves alone.
notPollVars == <<limVars, matchVars, renderVars, trelloVars, cfgVars, fnVars, oaVars>>

\* sync.Mutex: Lock() proceeds only when nobody holds the mutex.
MuFreeRacy(m) == TRUE

MuFree(m) == m = NoOwner

\* Allow, line 67: `last, ok := l.seen[key]; ok && time.Since(last) < l.ttl`.
DeniedInclusive(s, k, t) == s[k] # Absent /\ t - s[k] <= TTL

Denied(s, k, t) == s[k] # Absent /\ t - s[k] < TTL

\* cleanup, line 79: `time.Since(v) > l.ttl`.
ExpiredReversed(v, t) == t - v < TTL

Expired(v, t) == t - v > TTL

\* New, lines 58-62: an empty map, the cleanup goroutine started and asleep.
LimiterInit ==
    /\ now = 0
    /\ mu = NoOwner
    /\ seen = [k \in MapKeys |-> Absent]
    /\ pc = [p \in Procs |-> "idle"]
    /\ callKey = [p \in Procs |-> keyMove]
    /\ callConc = [p \in Procs |-> FALSE]
    /\ callChk = [p \in Procs |-> 0]
    /\ hist = <<>>
    /\ shadow = [k \in MapKeys |-> Absent]
    /\ cpc = "sleep"
    /\ wake = 2 * TTL
    /\ todo = {}

InFlight == {p \in Procs : pc[p] # "idle"}

\* Time passes.
Tick ==
    /\ now < MaxTime
    /\ now' = now + 1
    /\ UNCHANGED <<mu, seen, pc, callKey, callConc, callChk, hist, shadow, cpc, wake, todo, notLimVars>>

\* A caller invokes l.Allow(k) and reaches l.mu.Lock().
AllowCall(p, k) ==
    /\ pc[p] = "idle"
    /\ Len(hist) + Cardinality(InFlight) < MaxCalls
    /\ pc' = [pc EXCEPT ![p] = "lock"]
    /\ callKey' = [callKey EXCEPT ![p] = k]
    /\ callConc' = [callConc EXCEPT ![p] = \E q \in InFlight : callKey[q] = k]
    /\ UNCHANGED <<now, mu, seen, callChk, hist, shadow, cpc, wake, todo, notLimVars>>

\* Allow, line 65: l.mu.Lock() returns.
AllowLock(p) ==
    /\ pc[p] = "lock"
    /\ MuFree(mu)
    /\ mu' = p
    /\ pc' = [pc EXCEPT ![p] = "check"]
    /\ UNCHANGED <<now, seen, callKey, callConc, callChk, hist, shadow, cpc, wake, todo, notLimVars>>

\* Allow, lines 67-69: the lookup; a denied call returns false here.
AllowCheck(p) ==
    /\ pc[p] = "check"
    /\ callChk' = [callChk EXCEPT ![p] = now]
    /\ IF Denied(seen, callKey[p], now)
          THEN /\ pc' = [pc EXCEPT ![p] = "unlock"]
               /\ hist' = Append(hist, [key |-> callKey[p], res |-> FALSE,
                                        conc |-> callConc[p], chk |-> now, at |-> now])
          ELSE /\ pc' = [pc EXCEPT ![p] = "store"]
               /\ hist' = hist
    /\ UNCHANGED <<now, mu, seen, callKey, callConc, shadow, cpc, wake, todo, notLimVars>>

\* Allow, lines 70-71: l.seen[key] = time.Now(); return true.
AllowStore(p) ==
    /\ pc[p] = "store"
    /\ seen' = [seen EXCEPT ![callKey[p]] = now]
    /\ shadow' = [shadow EXCEPT ![callKey[p]] = now]
    /\ hist' = Append(hist, [key |-> callKey[p], res |-> TRUE,
                             conc |-> callConc[p], chk |-> callChk[p], at |-> now])
    /\ pc' = [pc EXCEPT ![p] = "unlock"]
    /\ UNCHANGED <<now, mu, callKey, callConc, callChk, cpc, wake, todo, notLimVars>>

\* Allow, line 66: the deferred l.mu.Unlock().
AllowUnlock(p) ==
    /\ pc[p] = "unlock"
    /\ mu' = NoOwner
    /\ pc' = [pc EXCEPT ![p] = "idle"]
    /\ callKey' = [callKey EXCEPT ![p] = keyMove]
    /\ callConc' = [callConc EXCEPT ![p] = FALSE]
    /\ callChk' = [callChk EXCEPT ![p] = 0]
    /\ UNCHANGED <<now, seen, hist, shadow, cpc, wake, todo, notLimVars>>

\* cleanup, lines 76-78: Sleep(2*ttl) has returned, the mutex is taken and the
\* range loop starts over the entries of the map.
CleanupLock ==
    /\ cpc = "sleep"
    /\ now >= wake
    /\ MuFree(mu)
    /\ mu' = Sweeper
    /\ cpc' = "sweep"
    /\ todo' = {k \in MapKeys : seen[k] # Absent}
    /\ UNCHANGED <<now, seen, pc, callKey, callConc, callChk, hist, shadow, wake, notLimVars>>

\* cleanup, lines 78-82: one iteration of the range loop.
CleanupVisit(k) ==
    /\ cpc = "sweep"
    /\ k \in todo
    /\ todo' = todo \ {k}
    /\ seen' = IF seen[k] # Absent /\ Expired(seen[k], now)
                  THEN [seen EXCEPT ![k] = Absent]
                  ELSE seen
    /\ UNCHANGED <<now, mu, pc, callKey, callConc, callChk, hist, shadow, cpc, wake, notLimVars>>

\* cleanup, lines 83 and 76: Unlock, then the next Sleep(2*ttl).
CleanupUnlock ==
    /\ cpc = "sweep"
    /\ todo = {}
    /\ mu' = NoOwner
    /\ cpc' = "sleep"
    /\ wake' = now + 2 * TTL
    /\ UNCHANGED <<now, seen, pc, callKey, callConc, callChk, hist, shadow, todo, notLimVars>>

\* One whole pass of cleanup, from Lock to Unlock: while the mutex is held no
\* call of Allow can observe the map, so the pass is one step for its callers.
CleanupSweep ==
    /\ cpc = "sleep"
    /\ now >= wake
    /\ MuFree(mu)
    /\ seen' = [k \in MapKeys |-> IF seen[k] # Absent /\ Expired(seen[k], now)
                                  THEN Absent
                                  ELSE seen[k]]
    /\ wake' = now + 2 * TTL
    /\ UNCHANGED <<now, mu, pc, callKey, callConc, callChk, hist, shadow, cpc, todo, notLimVars>>

LimiterNext ==
    \/ Tick
    \/ \E p \in Procs, k \in Keys : AllowCall(p, k)
    \/ \E p \in Procs : AllowLock(p)
    \/ \E p \in Procs : AllowCheck(p)
    \/ \E p \in Procs : AllowStore(p)
    \/ \E p \in Procs : AllowUnlock(p)
    \/ CleanupLock
    \/ \E k \in MapKeys : CleanupVisit(k)
    \/ CleanupUnlock

(***************************************************************************)
(* Strings.  A string is a sequence of one-character strings; the          *)
(* operators below are Go's package strings, with Go's 0-based indices.    *)
(***************************************************************************)
\* unicode.IsSpace, over the characters the model uses.
IsSpace(c) == c \in {" ", "\t"}

\* s[i:j] of Go: the characters at 0-based positions i .. j-1.
Slice(s, i, j) == SubSeq(s, i + 1, j)

\* Whether sub occurs in s at 0-based position i.
OccursAt(s, sub, i) ==
    /\ i >= 0
    /\ i + Len(sub) <= Len(s)
    /\ \A j \in 1..Len(sub) : s[i + j] = sub[j]

\* strings.Index: the first occurrence at or after position i, -1 when there is none.
RECURSIVE IndexFrom(_, _, _)
IndexFrom(s, sub, i) ==
    IF i + Len(sub) > Len(s)
       THEN 0 - 1
       ELSE IF OccursAt(s, sub, i) THEN i ELSE IndexFrom(s, sub, i + 1)

Index(s, sub) == IndexFrom(s, sub, 0)

\* strings.LastIndex: the last occurrence at or before position i, -1 when there is none.
RECURSIVE LastIndexFrom(_, _, _)
LastIndexFrom(s, sub, i) ==
    IF i < 0
       THEN 0 - 1
       ELSE IF OccursAt(s, sub, i) THEN i ELSE LastIndexFrom(s, sub, i - 1)

LastIndex(s, sub) == LastIndexFrom(s, sub, Len(s) - Len(sub))

\* strings.Contains.
Contains(s, sub) == Index(s, sub) >= 0

\* strings.HasPrefix and strings.HasSuffix.
HasPrefix(s, pre) == OccursAt(s, pre, 0)

HasSuffix(s, suf) == OccursAt(s, suf, Len(s) - Len(suf))

\* strings.Split(s, sep) for a non-empty sep: cut at each occurrence, left to
\* right.  SplitFrom scans from position i with the current piece starting
\* at position start.
RECURSIVE SplitFrom(_, _, _, _)
SplitFrom(s, sep, start, i) ==
    IF i + Len(sep) > Len(s)
       THEN <<Slice(s, start, Len(s))>>
       ELSE IF OccursAt(s, sep, i)
               THEN <<Slice(s, start, i)>> \o SplitFrom(s, sep, i + Len(sep), i + Len(sep))
               ELSE SplitFrom(s, sep, start, i + 1)

Split(s, sep) == SplitFrom(s, sep, 0, 0)

\* strings.TrimSpace: drop leading and trailing white space.
RECURSIVE TrimLeft(_)
TrimLeft(s) == IF s # <<>> /\ IsSpace(Head(s)) THEN TrimLeft(Tail(s)) ELSE s

RECURSIVE TrimRight(_)
TrimRight(s) ==
    IF s # <<>> /\ IsSpace(s[Len(s)]) THEN TrimRight(SubSeq(s, 1, Len(s) - 1)) ELSE s

TrimSpace(s) == TrimRight(TrimLeft(s))

\* String literals of the code.
strList == <<"l", "i", "s", "t">>

strEq == <<"=", "=">>

strOr == <<"|", "|">>

strQuote == <<"'">>

strSp == <<" ">>

strTab == <<"\t">>

\* "list ==", the marker matchCondition looks for (line 354).
strListEq == strList \o strSp \o strEq

(***************************************************************************)
(* webhook.TrelloHandler.matchCondition                                    *)
(***************************************************************************)
\* Lines 353-364: one part of the condition, after TrimSpace.
PartMatches(part, listName) ==
    /\ Contains(part, strListEq)
    /\ LET start == Index(part, strQuote)
           end == LastIndex(part, strQuote)
       IN  /\ start >= 0
           /\ end > start
           /\ Slice(part, start + 1, end) = listName

\* Lines 352-366: the loop over the parts, returning at the first that matches.
RECURSIVE MatchParts(_, _, _)
MatchParts(parts, i, listName) ==
    IF i > Len(parts)
       THEN FALSE
       ELSE IF PartMatches(TrimSpace(parts[i]), listName)
               THEN TRUE
               ELSE MatchParts(parts, i + 1, listName)

\* Lines 346-367.
matchCondition(condition, listName) ==
    IF condition = <<>>
       THEN TRUE
       ELSE MatchParts(Split(condition, strOr), 1, listName)

(***************************************************************************)
(* Calls of matchCondition.  A condition is written clause by clause, the  *)
(* clauses joined by a separator; matchCondition is then applied to it.    *)
(***************************************************************************)
MaxClauses == 2

\* The list names of the calls.
nameA == <<"a">>

nameB == <<"b">>

ListNames == {nameA, nameB, <<>>}

Quoted(x) == strQuote \o x \o strQuote

\* Clauses an operator may write: well-formed ones, with other spacing, and
\* malformed ones (missing quotes, unknown syntax).
Clauses ==
    { strList \o strSp \o strEq \o strSp \o Quoted(nameA),                \* list == 'a'
      strList \o strSp \o strEq \o strSp \o Quoted(nameB),                \* list == 'b'
      strList \o strEq \o Quoted(nameA),                                  \* list=='a'
      strList \o strSp \o strSp \o strEq \o strSp \o strSp \o Quoted(nameA), \* list  ==  'a'
      strList \o strTab \o strEq \o strTab \o Quoted(nameB),              \* list<TAB>==<TAB>'b'
      strList \o strSp \o strEq \o strSp \o nameA,                        \* list == a
      strList \o strSp \o strEq \o strSp \o strQuote \o nameA,            \* list == 'a
      <<"x">> \o strList \o strSp \o strEq \o strSp \o Quoted(nameA),     \* xlist == 'a'
      strList \o strSp \o strEq \o strSp \o Quoted(nameA) \o strSp \o Quoted(nameB), \* list == 'a' 'b'
      strList \o strSp \o <<"=">> \o strSp \o Quoted(nameA),              \* list = 'a'
      strList \o strSp \o strEq \o strSp \o Quoted(<<>>),                 \* list == ''
      nameA,                                                              \* a
      <<>> }

\* What an operator may put between two clauses.
Separators == {strOr, strSp \o strOr \o strSp, strSp \o strOr, <<"|">>}

MatchInit ==
    /\ mCond = <<>>
    /\ mList \in ListNames
    /\ mParts = 0
    /\ mDone = FALSE
    /\ mRes = FALSE

\* The values these variables keep while another component is examined.
MatchIdle ==
    /\ mCond = <<>>
    /\ mList = <<>>
    /\ mParts = 0
    /\ mDone = FALSE
    /\ mRes = FALSE

\* The first clause of the condition is written.
WriteFirstClause(c) ==
    /\ ~mDone
    /\ mParts = 0
    /\ mCond' = c
    /\ mParts' = 1
    /\ UNCHANGED <<mList, mDone, mRes, notMatchVars>>

\* A further clause is written after a separator.
WriteNextClause(sep, c) ==
    /\ ~mDone
    /\ mParts >= 1
    /\ mParts < MaxClauses
    /\ mCond' = mCond \o sep \o c
    /\ mParts' = mParts + 1
    /\ UNCHANGED <<mList, mDone, mRes, notMatchVars>>

\* h.matchCondition(mCond, mList) is called and returns.
CallMatchCondition ==
    /\ ~mDone
    /\ mDone' = TRUE
    /\ mRes' = matchCondition(mCond, mList)
    /\ UNCHANGED <<mCond, mList, mParts, notMatchVars>>

MatchNext ==
    \/ \E c \in Clauses : WriteFirstClause(c)
    \/ \E sep \in Separators, c \in Clauses : WriteNextClause(sep, c)
    \/ CallMatchCondition

(***************************************************************************)
(* text/template, as renderMessage and executeNotify use it.  A template   *)
(* is a sequence of tokens: the delimiters "{{" and "}}", field references *)
(* such as ".CardName", and pieces of plain text.  A rendered string is    *)
(* the sequence of its pieces.                                             *)
(***************************************************************************)
tokOpen == "{{"

tokClose == "}}"

\* Field references a template may hold; ".Bad" and ".Missing" name no key.
FieldTokens == {".CardName", ".ListAfterName", ".From", ".Subject", ".Bad", ".Missing"}

\* template.Parse: outside an action "{{" opens one and everything else is
\* text; inside an action only a chain of field references may precede "}}".
\* An action left open, an empty action, or any other token inside an action
\* is a parse error.
RECURSIVE ParseFrom(_, _, _, _, _)
ParseFrom(tmpl, i, inAction, chain, nodes) ==
    IF i > Len(tmpl)
       THEN [ok |-> ~inAction, nodes |-> nodes]
       ELSE IF ~inAction
               THEN IF tmpl[i] = tokOpen
                       THEN ParseFrom(tmpl, i + 1, TRUE, <<>>, nodes)
                       ELSE ParseFrom(tmpl, i + 1, FALSE, <<>>,
                                      Append(nodes, [kind |-> "text", text |-> tmpl[i], chain |-> <<>>]))
               ELSE IF tmpl[i] \in FieldTokens
                       THEN ParseFrom(tmpl, i + 1, TRUE, Append(chain, tmpl[i]), nodes)
                       ELSE IF tmpl[i] = tokClose /\ chain # <<>>
                               THEN ParseFrom(tmpl, i + 1, FALSE, <<>>,
                                              Append(nodes, [kind |-> "field", text |-> "", chain |-> chain]))
                               ELSE [ok |-> FALSE, nodes |-> nodes]

Parse(tmpl) == ParseFrom(tmpl, 1, FALSE, <<>>, <<>>)

\* A map[string]string lookup by a template: the zero value "" for a missing key.
Lookup(data, f) == IF f \in DOMAIN data THEN data[f] ELSE ""

\* A string value as pieces of output: nothing for the empty string.
Pieces(v) == IF v = "" THEN <<>> ELSE <<v>>

\* Template.Execute: text is copied, .Field prints the map's value, and
\* .Field.Sub fails (a string has no fields); what was written before a
\* failure stays in the buffer.
RECURSIVE ExecFrom(_, _, _, _)
ExecFrom(nodes, i, data, buf) ==
    IF i > Len(nodes)
       THEN [ok |-> TRUE, out |-> buf]
       ELSE IF nodes[i].kind = "text"
               THEN ExecFrom(nodes, i + 1, data, Append(buf, nodes[i].text))
               ELSE IF Len(nodes[i].chain) = 1
                       THEN ExecFrom(nodes, i + 1, data,
                                     buf \o Pieces(Lookup(data, nodes[i].chain[1])))
                       ELSE [ok |-> FALSE, out |-> buf]

Execute(nodes, data) == ExecFrom(nodes, 1, data, <<>>)

(***************************************************************************)
(* webhook.TrelloHandler.renderMessage                                     *)
(***************************************************************************)
\* A renderer that forgets the fallback after a failed Execute.
renderMessageKeepsBuffer(tmpl, data) ==
    IF ~Parse(tmpl).ok
       THEN tmpl
       ELSE Execute(Parse(tmpl).nodes, data).out

\* Lines 369-381.
renderMessage(tmpl, data) ==
    IF ~Parse(tmpl).ok
       THEN tmpl
       ELSE IF ~Execute(Parse(tmpl).nodes, data).ok
               THEN tmpl
               ELSE Execute(Parse(tmpl).nodes, data).out

(***************************************************************************)
(* Calls of renderMessage.  A template is written token by token and then  *)
(* rendered with a field map.                                              *)
(***************************************************************************)
MaxTokens == 5

TemplateTokens == {tokOpen, tokClose, ".CardName", ".Bad", "x"}

NoFields == [f \in {} |-> ""]

FieldMaps == {NoFields, [f \in {".CardName"} |-> "Test Card"]}

RenderInit ==
    /\ tTmpl = <<>>
    /\ tData \in FieldMaps
    /\ tDone = FALSE
    /\ tOut = <<>>

RenderIdle ==
    /\ tTmpl = <<>>
    /\ tData = NoFields
    /\ tDone = FALSE
    /\ tOut = <<>>

\* One more token of the template is written.
WriteToken(tok) ==
    /\ ~tDone
    /\ Len(tTmpl) < MaxTokens
    /\ tTmpl' = Append(tTmpl, tok)
    /\ UNCHANGED <<tData, tDone, tOut, notRenderVars>>

\* h.renderMessage(tTmpl, tData) is called and returns.
CallRenderMessage ==
    /\ ~tDone
    /\ tDone' = TRUE
    /\ tOut' = renderMessage(tTmpl, tData)
    /\ UNCHANGED <<tTmpl, tData, notRenderVars>>

RenderNext ==
    \/ \E tok \in TemplateTokens : WriteToken(tok)
    \/ CallRenderMessage

(***************************************************************************)
(* webhook.TrelloHandler: findRule and ServeHTTP.                          *)
(***************************************************************************)
strReady == <<"r", "e", "a", "d", "y">>

strQuestions == <<"q", "u", "e", "s", "t", "i", "o", "n", "s">>

strDev == <<"d", "e", "v">>

\* h.Config.Trello.Lists: list name to list id, with distinct ids.
Lists == [n \in {strReady, strQuestions, strDev} |->
            IF n = strReady THEN "L1" ELSE IF n = strQuestions THEN "L2" ELSE "L3"]

\* Config.ListIDToName: the name configured for the id, "" when there is none.
ListIDToName(id) ==
    IF \E n \in DOMAIN Lists : Lists[n] = id
       THEN CHOOSE n \in DOMAIN Lists : Lists[n] = id
       ELSE <<>>

\* A scan that keeps going after a match and so returns the last matching rule.
RECURSIVE findRuleLastMatch(_, _, _, _)
findRuleLastMatch(rs, i, eventType, listName) ==
    IF i > Len(rs)
       THEN 0
       ELSE IF findRuleLastMatch(rs, i + 1, eventType, listName) # 0
               THEN findRuleLastMatch(rs, i + 1, eventType, listName)
               ELSE IF rs[i].event = eventType /\ matchCondition(rs[i].condition, listName)
                       THEN i
                       ELSE 0

\* The loop of findRule from index i on: the index of the rule returned, 0 for nil.
RECURSIVE findRuleFrom(_, _, _, _)
findRuleFrom(rs, i, eventType, listName) ==
    IF i > Len(rs)
       THEN 0
       ELSE IF rs[i].event # eventType
               THEN findRuleFrom(rs, i + 1, eventType, listName)
               ELSE IF matchCondition(rs[i].condition, listName)
                       THEN i
                       ELSE findRuleFrom(rs, i + 1, eventType, listName)

findRule(rs, eventType, listName) == findRuleFrom(rs, 1, eventType, listName)

DefaultTimeout == 120

DefaultDelay == 2

\* A key made of the card alone, the same for a move and a comment.
RateLimitKeyPerCard(cardID, actionType) == keyMove

\* fmt.Sprintf("trello:%s:%s", cardID, actionType) for the card of the requests below.
RateLimitKey(cardID, actionType) ==
    IF actionType = "updateCard" THEN keyMove ELSE keyComment

\* The field map ServeHTTP hands to renderMessage, keyed by the field's token.
TrelloFields(cardID, cardName, listAfterID, listAfterName, listBeforeName) ==
    [f \in {".CardID", ".CardName", ".ListAfterID", ".ListAfterName", ".ListBeforeName", ".ListName"} |->
        CASE f = ".CardID" -> cardID
          [] f = ".CardName" -> cardName
          [] f = ".ListAfterID" -> listAfterID
          [] f = ".ListAfterName" -> listAfterName
          [] f = ".ListBeforeName" -> listBeforeName
          [] f = ".ListName" -> listAfterName]

\* The rules an operator may configure.
cardMoved == "card_moved"

commentAdded == "comment_added"

condReady == strListEq \o strSp \o Quoted(strReady)

condDev == strListEq \o strSp \o Quoted(strDev)

RuleCatalogue ==
    { [event |-> cardMoved, condition |-> condReady,
       template |-> <<"x", tokOpen, ".CardName", tokClose>>,
       agent |-> "main", timeout |-> 0, delay |-> 0],
      [event |-> cardMoved, condition |-> condDev,
       template |-> <<"x", tokOpen, ".CardName">>,
       agent |-> "dev", timeout |-> 60, delay |-> 5],
      [event |-> cardMoved, condition |-> <<>>,
       template |-> <<"x", tokOpen, ".CardName", ".Bad", tokClose>>,
       agent |-> "ops", timeout |-> 30, delay |-> 0],
      [event |-> commentAdded, condition |-> <<>>,
       template |-> <<tokOpen, ".Missing", tokClose, "x">>,
       agent |-> "main", timeout |-> 0, delay |-> 10] }

MaxRules == 2

\* Rule lists of up to MaxRules different rules, in every order.
RuleLists ==
    {rs \in UNION {[1..n -> RuleCatalogue] : n \in 0..MaxRules} :
        \A i, j \in 1..Len(rs) : rs[i] = rs[j] => i = j}

\* hmac.New(h, key) fed text: a tag that two computations share exactly when
\* they share the key and the text.
Mac(key, text) == <<key, text>>

\* The text of the request at hand, what its sender may have signed instead,
\* and the keys a sender may sign with.
ownText == "own"

SignedTexts == {ownText, "other"}

SignKeys == {"s1", "g1", "zz"}

\* The X-Trello-Webhook header: the base64 of a tag, or nothing.
NoSig == <<"">>

TrelloSign(key, text) == <<"base64", Mac(key, text)>>

TrelloSigs == {TrelloSign("s1", ownText), TrelloSign("zz", ownText), TrelloSign("s1", "other"), NoSig}

\* A verification that only asks for a well-formed signature.
VerifyTrelloSignatureAnyKey(signature, sec) == signature # NoSig

\* VerifyTrelloSignature (lines 200-213) for the body and callback URL of
\* the request that carries the signature.
VerifyTrelloSignature(signature, sec) ==
    IF sec = "" THEN TRUE ELSE signature = TrelloSign(sec, ownText)

\* Lines 234-238: whether ServeHTTP goes on to the payload.
TrelloGate(r) == ~(secret # "" /\ ~VerifyTrelloSignature(r.sig, secret))

\* The requests delivered to the handler.  A request that does not get as far
\* as the payload, or is not signed with the key s1, carries a fixed one.
Requests ==
    { r \in [method : {"POST", "HEAD", "GET"}, sig : TrelloSigs, jsonOk : BOOLEAN,
             actionType : {"updateCard", "commentCard", "createCard"},
             cardID : {"c1", ""}, listAfterID : {"", "L1", "L2", "L3", "L9"}] :
        /\ (r.method # "POST" \/ r.sig # TrelloSign("s1", ownText) \/ ~r.jsonOk
               \/ r.actionType = "createCard") =>
              (r.cardID = "c1" /\ r.listAfterID = "L1")
        /\ (r.method # "POST") =>
              (r.sig = TrelloSign("s1", ownText) /\ r.jsonOk /\ r.actionType = "updateCard")
        /\ r.sig # TrelloSign("s1", ownText) => (r.jsonOk /\ r.actionType = "updateCard")
        /\ ~r.jsonOk => r.actionType = "updateCard"
        /\ r.actionType = "updateCard" => r.cardID = "c1"
        /\ r.actionType = "commentCard" => r.listAfterID \in {"", "L2"} }

\* payload.Action.Data.Card.Name and the list names Trello sends along.
CardNameOf(cardID) == IF cardID = "" THEN "" ELSE "Test Card"

ListAfterNameOf(listAfterID) ==
    CASE listAfterID = "" -> ""
      [] listAfterID = "L1" -> "Ready"
      [] listAfterID = "L2" -> "Questions"
      [] OTHER -> "Elsewhere"

NoRequest == [method |-> "none"]

NoResponse == [req |-> NoRequest, status |-> 0, outcome |-> "none", eventType |-> "",
               listName |-> <<>>, rule |-> 0, jobs |-> <<>>]

Answer(r, status, outcome) == [NoResponse EXCEPT !.req = r, !.status = status, !.outcome = outcome]

\* A switch without the exclusion of the questions column.
EventTypeOfWithQuestions(r) ==
    CASE r.actionType = "updateCard" ->
            IF r.listAfterID = "" \/ ListIDToName(r.listAfterID) = <<>>
               THEN "" ELSE cardMoved
      [] r.actionType = "commentCard" -> IF r.cardID = "" THEN "" ELSE commentAdded
      [] OTHER -> ""

\* A switch that keeps comments out of the questions list as well.
EventTypeOfCommentsExcluded(r) ==
    CASE r.actionType = "updateCard" ->
            IF r.listAfterID = "" \/ ListIDToName(r.listAfterID) = <<>>
               \/ ListIDToName(r.listAfterID) = strQuestions
               THEN "" ELSE cardMoved
      [] r.actionType = "commentCard" ->
            IF r.cardID = "" \/ ListIDToName(r.listAfterID) = strQuestions
               THEN "" ELSE commentAdded
      [] OTHER -> ""

\* The event type ServeHTTP's switch assigns, "" when the request is ignored.
EventTypeOf(r) ==
    CASE r.actionType = "updateCard" ->
            IF r.listAfterID = "" \/ ListIDToName(r.listAfterID) = <<>>
               \/ ListIDToName(r.listAfterID) = strQuestions
               THEN "" ELSE cardMoved
      [] r.actionType = "commentCard" -> IF r.cardID = "" THEN "" ELSE commentAdded
      [] OTHER -> ""

\* A handler that hands the rule's timeout and delay to the gateway as
\* configured, without the defaults for zero.
JobForAsConfigured(r, rule, failed) ==
    [name |-> <<EventTypeOf(r), CardNameOf(r.cardID)>>,
     msg |-> renderMessage(rule.template,
                 TrelloFields(r.cardID, CardNameOf(r.cardID), r.listAfterID,
                              ListAfterNameOf(r.listAfterID), "Backlog")),
     agent |-> rule.agent,
     timeout |-> rule.timeout,
     delay |-> rule.delay,
     failed |-> failed]

\* The one call of Gateway.CreateOneShotJobForAgent that ServeHTTP makes for a rule.
JobFor(r, rule, failed) ==
    [name |-> <<EventTypeOf(r), CardNameOf(r.cardID)>>,
     msg |-> renderMessage(rule.template,
                 TrelloFields(r.cardID, CardNameOf(r.cardID), r.listAfterID,
                              ListAfterNameOf(r.listAfterID), "Backlog")),
     agent |-> rule.agent,
     timeout |-> IF rule.timeout = 0 THEN DefaultTimeout ELSE rule.timeout,
     delay |-> IF rule.delay = 0 THEN DefaultDelay ELSE rule.delay,
     failed |-> failed]

TrelloInit ==
    /\ rules \in RuleLists
    /\ resp = NoResponse

TrelloIdle ==
    /\ rules = <<>>
    /\ resp = NoResponse

\* A configuration without webhook secrets, as Load leaves it (part_009:248-250).
CfgIdle ==
    /\ secret = ""
    /\ ghSecret = ""
    /\ ghMode = "all"

\* A configuration with a Trello secret.
CfgTrello ==
    /\ secret = "s1"
    /\ ghSecret = ""
    /\ ghMode = "all"

\* A handler that answers 502 when the gateway call fails.
StatusAfterDispatchPropagates(failed) == IF failed THEN 502 ELSE 200

\* The status written after the gateway call: its error is only logged
\* (store_test.go:323-328, part_005:147-151).
StatusAfterDispatch(failed) == 200

\* A handler that consults the limiter before it looks at the action.
ServeIgnoredAfterAllow(r) ==
    /\ \/ r.method # "POST"
       \/ ~TrelloGate(r)
       \/ ~r.jsonOk
       \/ EventTypeOf(r) = ""
    /\ resp' = IF r.method = "HEAD" THEN Answer(r, 200, "head")
               ELSE IF r.method # "POST" THEN Answer(r, 405, "method")
               ELSE IF ~TrelloGate(r) THEN Answer(r, 403, "forbidden")
               ELSE IF ~r.jsonOk THEN Answer(r, 200, "badjson")
               ELSE Answer(r, 200, "ignored")
    /\ IF r.method = "POST" /\ TrelloGate(r) /\ r.jsonOk
          /\ RateLimitKey(r.cardID, r.actionType) \in Keys
          THEN /\ seen' = [seen EXCEPT ![RateLimitKey(r.cardID, r.actionType)] = now]
               /\ shadow' = [shadow EXCEPT ![RateLimitKey(r.cardID, r.actionType)] = now]
          ELSE UNCHANGED <<seen, shadow>>
    /\ UNCHANGED <<now, mu, pc, callKey, callConc, callChk, hist, cpc, wake, todo,
                   rules, notTrelloVars>>

\* ServeHTTP up to and including an early return before the rate limiter.
ServeIgnored(r) ==
    /\ \/ r.method # "POST"
       \/ ~TrelloGate(r)
       \/ ~r.jsonOk
       \/ EventTypeOf(r) = ""
    /\ resp' = IF r.method = "HEAD" THEN Answer(r, 200, "head")
               ELSE IF r.method # "POST" THEN Answer(r, 405, "method")
               ELSE IF ~TrelloGate(r) THEN Answer(r, 403, "forbidden")
               ELSE IF ~r.jsonOk THEN Answer(r, 200, "badjson")
               ELSE Answer(r, 200, "ignored")
    /\ UNCHANGED <<limVars, rules, notTrelloVars>>

\* ServeHTTP for a request that Limiter.Allow refuses.
ServeRateLimited(r) ==
    /\ r.method = "POST" /\ TrelloGate(r) /\ r.jsonOk /\ EventTypeOf(r) # ""
    /\ MuFree(mu)
    /\ Denied(seen, RateLimitKey(r.cardID, r.actionType), now)
    /\ resp' = [Answer(r, 200, "ratelimited") EXCEPT !.eventType = EventTypeOf(r)]
    /\ UNCHANGED <<limVars, rules, notTrelloVars>>

\* A handler that gives the key back when no rule matched or the gateway
\* call failed.
ServeAllowedReleasing(r) ==
    /\ r.method = "POST" /\ TrelloGate(r) /\ r.jsonOk /\ EventTypeOf(r) # ""
    /\ MuFree(mu)
    /\ ~Denied(seen, RateLimitKey(r.cardID, r.actionType), now)
    /\ \E i \in {findRule(rules, EventTypeOf(r), ListIDToName(r.listAfterID))} :
       \E failed \in (IF i = 0 THEN {FALSE} ELSE BOOLEAN) :
           /\ resp' = [req |-> r, status |-> StatusAfterDispatch(failed),
                       outcome |-> IF i = 0 THEN "norule" ELSE "dispatched",
                       eventType |-> EventTypeOf(r),
                       listName |-> ListIDToName(r.listAfterID), rule |-> i,
                       jobs |-> IF i = 0 THEN <<>> ELSE <<JobFor(r, rules[i], failed)>>]
           /\ seen' = [seen EXCEPT ![RateLimitKey(r.cardID, r.actionType)] =
                          IF i = 0 \/ failed THEN Absent ELSE now]
           /\ shadow' = [shadow EXCEPT ![RateLimitKey(r.cardID, r.actionType)] =
                          IF i = 0 \/ failed THEN Absent ELSE now]
    /\ UNCHANGED <<now, mu, pc, callKey, callConc, callChk, hist, cpc, wake, todo,
                   rules, notTrelloVars>>

\* ServeHTTP for a request that Limiter.Allow lets through: the key is
\* recorded, findRule is consulted, and the rule it returns, if any, is
\* dispatched with one gateway call whose error is only logged.
ServeAllowed(r) ==
    /\ r.method = "POST" /\ TrelloGate(r) /\ r.jsonOk /\ EventTypeOf(r) # ""
    /\ MuFree(mu)
    /\ ~Denied(seen, RateLimitKey(r.cardID, r.actionType), now)
    /\ seen' = [seen EXCEPT ![RateLimitKey(r.cardID, r.actionType)] = now]
    /\ shadow' = [shadow EXCEPT ![RateLimitKey(r.cardID, r.actionType)] = now]
    /\ \E i \in {findRule(rules, EventTypeOf(r), ListIDToName(r.listAfterID))} :
       \E failed \in (IF i = 0 THEN {FALSE} ELSE BOOLEAN) :
           resp' = [req |-> r, status |-> StatusAfterDispatch(failed),
                    outcome |-> IF i = 0 THEN "norule" ELSE "dispatched",
                    eventType |-> EventTypeOf(r),
                    listName |-> ListIDToName(r.listAfterID), rule |-> i,
                    jobs |-> IF i = 0 THEN <<>> ELSE <<JobFor(r, rules[i], failed)>>]
    /\ UNCHANGED <<now, mu, pc, callKey, callConc, callChk, hist, cpc, wake, todo,
                   rules, notTrelloVars>>

TrelloNext ==
    \/ Tick
    \/ CleanupSweep
    \/ \E r \in Requests : ServeIgnored(r)
    \/ \E r \in Requests : ServeRateLimited(r)
    \/ \E r \in Requests : ServeAllowed(r)

(***************************************************************************)
(* webhook.GitHubHandler: VerifyGitHubSignature and ServeHTTP.             *)
(***************************************************************************)
\* The X-Hub-Signature-256 header: a prefix and the hex of a tag.
GhSign(prefix, key, text) == <<prefix, Mac(key, text)>>

GhSigs == {GhSign("sha256=", "g1", ownText), GhSign("sha256=", "zz", ownText),
           GhSign("", "g1", ownText), NoSig}

\* VerifyGitHubSignature (lines 25-37) for the body of the request that
\* carries the signature.
VerifyGitHubSignature(signature, sec) ==
    IF sec = "" THEN TRUE
    ELSE IF signature[1] # "sha256=" THEN FALSE
    ELSE signature[2] = Mac(sec, ownText)

\* Lines 51-56: whether ServeHTTP goes on to the event header.
GitHubGate(r) == ~(ghSecret # "" /\ ~VerifyGitHubSignature(r.sig, ghSecret))

\* Lines 60-64: relevantEvents.
relevantEvents == {"check_run", "workflow_run", "pull_request_review"}

\* A switch that lets every action the payload names through.
TerminalAny(event, action) == action # ""

\* Lines 95-111: whether the switch on ghEvent lets the payload's action through.
Terminal(event, action) ==
    CASE event = "check_run" -> action = "completed"
      [] event = "workflow_run" -> action = "completed"
      [] event = "pull_request_review" -> action = "submitted"
      [] OTHER -> TRUE

\* Lines 113-119: the PR number the key and the message are made of.
prNumber(r) ==
    IF r.prTop # 0 THEN r.prTop
    ELSE IF r.prCheck # 0 THEN r.prCheck
    ELSE r.prWf

\* The deliveries to /webhook/github.  A body that is not JSON leaves the
\* payload struct at its zero value (line 93 ignores the error); a request
\* that does not get as far as the payload carries a fixed one.
GoodGhSig == GhSign("sha256=", "g1", ownText)

GhRequests ==
    { r \in [hook : {"github"}, method : {"POST", "GET"}, sig : GhSigs, jsonOk : BOOLEAN,
             event : relevantEvents \cup {"push"},
             action : {"completed", "submitted", "requested", ""},
             conclusion : {"success", "failure", ""},
             prTop : {0, 7}, prCheck : {0, 7}, prWf : {0, 7, 8}] :
        /\ (r.method # "POST" \/ r.sig # GoodGhSig \/ r.event = "push") =>
              (r.jsonOk /\ r.action = "completed" /\ r.conclusion = "failure"
               /\ r.prTop = 0 /\ r.prCheck = 0 /\ r.prWf = 7)
        /\ r.method # "POST" => (r.sig = GoodGhSig /\ r.event = "workflow_run")
        /\ r.sig # GoodGhSig => r.event = "workflow_run"
        /\ ~r.jsonOk =>
              (r.event = "workflow_run" /\ r.action = "" /\ r.conclusion = ""
               /\ r.prTop = 0 /\ r.prCheck = 0 /\ r.prWf = 0)
        /\ r.jsonOk => r.action # ""
        /\ (r.jsonOk /\ r.event = "check_run") =>
              (r.conclusion # "" /\ r.prTop = 0 /\ r.prCheck = 7 /\ r.prWf = 0)
        /\ (r.jsonOk /\ r.event = "workflow_run") =>
              (r.conclusion # "" /\ r.prTop = 0 /\ r.prCheck = 0 /\ r.prWf # 0)
        /\ (r.jsonOk /\ r.event = "pull_request_review") =>
              (r.conclusion = "" /\ r.prTop = 7 /\ r.prCheck = 0 /\ r.prWf = 0) }

GhJobTimeout == 120

GhJobDelay == 2

\* Lines 130-147: the one call of Gateway.CreateOneShotJob that ServeHTTP makes.
GhJob(r, failed) ==
    [name |-> <<r.event, r.action, prNumber(r)>>,
     msg |-> <<r.event, r.action, "user/repo", prNumber(r)>>,
     agent |-> "",
     timeout |-> GhJobTimeout,
     delay |-> GhJobDelay,
     failed |-> failed]

\* Whether ServeHTTP gets as far as the limiter with the request.
GhReachesLimiter(r) ==
    /\ r.method = "POST"
    /\ GitHubGate(r)
    /\ r.event \in relevantEvents
    /\ Terminal(r.event, r.action)

\* ServeHTTP up to and including an early return before the rate limiter.
ServeGitHubIgnored(r) ==
    /\ ~GhReachesLimiter(r)
    /\ resp' = IF r.method # "POST" THEN Answer(r, 405, "gh-method")
               ELSE IF ~GitHubGate(r) THEN Answer(r, 403, "gh-forbidden")
               ELSE Answer(r, 200, "gh-ignored")
    /\ UNCHANGED <<limVars, rules, notTrelloVars>>

\* ServeHTTP for a request that Limiter.Allow refuses.
ServeGitHubRateLimited(r) ==
    /\ GhReachesLimiter(r)
    /\ MuFree(mu)
    /\ Denied(seen, GhKey(r.event, prNumber(r)), now)
    /\ resp' = [Answer(r, 200, "gh-ratelimited") EXCEPT !.eventType = r.event]
    /\ UNCHANGED <<limVars, rules, notTrelloVars>>

\* ServeHTTP for a request that Limiter.Allow lets through: the key is
\* recorded and one gateway call is made, whose error is only logged.  The
\* handler does not read Config.GitHub.NotifyMode.
ServeGitHubAllowed(r) ==
    /\ GhReachesLimiter(r)
    /\ MuFree(mu)
    /\ ~Denied(seen, GhKey(r.event, prNumber(r)), now)
    /\ seen' = [seen EXCEPT ![GhKey(r.event, prNumber(r))] = now]
    /\ shadow' = [shadow EXCEPT ![GhKey(r.event, prNumber(r))] = now]
    /\ \E failed \in BOOLEAN :
          resp' = [Answer(r, StatusAfterDispatch(failed), "gh-dispatched") EXCEPT
                      !.eventType = r.event, !.jobs = <<GhJob(r, failed)>>]
    /\ UNCHANGED <<now, mu, pc, callKey, callConc, callChk, hist, cpc, wake, todo,
                   rules, notTrelloVars>>

\* The deliveries served while time passes: workflow runs of two pull
\* requests, reviews, and everything that is turned away.
WorkflowAndReview == {r \in GhRequests : r.event # "check_run"}

GitHubNext ==
    \/ Tick
    \/ CleanupSweep
    \/ \E r \in WorkflowAndReview : ServeGitHubIgnored(r)
    \/ \E r \in WorkflowAndReview : ServeGitHubRateLimited(r)
    \/ \E r \in WorkflowAndReview : ServeGitHubAllowed(r)

(***************************************************************************)
(* gmail.Poller: matchRule, executeNotify, evaluateRules, Start and poll.  *)
(***************************************************************************)
\* The characters of the sender strings the model uses.
Chars(str) ==
    CASE str = "A@x" -> <<"A", "@", "x">>
      [] str = "b@y" -> <<"b", "@", "y">>
      [] str = "x@A" -> <<"x", "@", "A">>
      [] OTHER -> <<>>

\* strings.ToLower, over the characters the model uses.
ToLowerChar(c) == CASE c = "A" -> "a" [] c = "B" -> "b" [] c = "X" -> "x" [] OTHER -> c

ToLower(s) == [i \in 1..Len(s) |-> ToLowerChar(s[i])]

\* A matcher that knows no wildcard.
PatternMatchesContainsOnly(fromLower, pattern) == Contains(fromLower, ToLower(pattern))

\* Lines 189-199: one pattern of match.From against the lower-cased sender.
PatternMatches(fromLower, pattern) ==
    IF HasPrefix(ToLower(pattern), <<"*">>)
       THEN HasSuffix(fromLower, Tail(ToLower(pattern)))
       ELSE Contains(fromLower, ToLower(pattern))

\* Lines 171-205.
matchRule(match, msg) ==
    /\ \A i \in 1..Len(match.labels) :
          \E j \in 1..Len(msg.labels) : msg.labels[j] = match.labels[i]
    /\ Len(match.from) > 0 =>
          \E i \in 1..Len(match.from) : PatternMatches(ToLower(Chars(msg.from)), match.from[i])

\* The template executeNotify uses when the rule gives none (line 210).
DefaultMailTemplate == <<"@", tokOpen, ".From", tokClose, ":", tokOpen, ".Subject", tokClose>>

NotifyTimeout == 30

NotifyDelay == 0

\* The field map executeNotify builds (lines 219-224), keyed by the field's token.
MailFields(msg) ==
    [f \in {".From", ".Subject", ".Snippet", ".ID"} |->
        CASE f = ".From" -> msg.from
          [] f = ".Subject" -> msg.subject
          [] f = ".Snippet" -> msg.snippet
          [] f = ".ID" -> msg.id]

\* The template executeNotify renders.
NotifyTemplate(notify) == IF notify.template = <<>> THEN DefaultMailTemplate ELSE notify.template

\* The gateway call of executeNotify for a rendered message (lines 233-237).
NotifyJob(notify, message) ==
    [name |-> "gmail-notify",
     msg |-> [target |-> notify.target, channel |-> notify.channel, message |-> message],
     agent |-> notify.agent, timeout |-> NotifyTimeout, delay |-> NotifyDelay]

\* A notifier that sends the raw template when it cannot render it.
executeNotifyRaw(notify, msg) ==
    IF ~Parse(NotifyTemplate(notify)).ok
       THEN <<NotifyJob(notify, NotifyTemplate(notify))>>
       ELSE IF ~Execute(Parse(NotifyTemplate(notify)).nodes, MailFields(msg)).ok
               THEN <<NotifyJob(notify, NotifyTemplate(notify))>>
               ELSE <<NotifyJob(notify, Execute(Parse(NotifyTemplate(notify)).nodes, MailFields(msg)).out)>>

\* A notifier that sends what the buffer holds although Execute failed.
NotifyRenderedKeepsBuffer(notify, e) == <<NotifyJob(notify, e.out)>>

\* Lines 226-237: Execute has returned e; the gateway is called unless it failed.
NotifyRendered(notify, e) == IF ~e.ok THEN <<>> ELSE <<NotifyJob(notify, e.out)>>

\* Lines 213-237: Parse has returned p; Execute follows unless it failed.
NotifyParsed(notify, p, msg) ==
    IF ~p.ok THEN <<>> ELSE NotifyRendered(notify, Execute(p.nodes, MailFields(msg)))

\* Lines 207-240: the gateway calls executeNotify makes, none or one.
executeNotify(notify, msg) == NotifyParsed(notify, Parse(NotifyTemplate(notify)), msg)

\* The calls made for rule i and the message at position entry, as logged.
Stamp(calls, entry, i, failed) ==
    [n \in 1..Len(calls) |-> [entry |-> entry, rule |-> i, failed |-> failed, job |-> calls[n]]]

\* Lines 159-169: the loop of evaluateRules from rule i on, for the message at
\* position entry of the tick; failed tells whether the gateway returned an error.
RECURSIVE evaluateRulesFrom(_, _, _, _, _)
evaluateRulesFrom(rs, i, msg, entry, failed) ==
    IF i > Len(rs)
       THEN <<>>
       ELSE IF ~matchRule(rs[i].match, msg)
               THEN evaluateRulesFrom(rs, i + 1, msg, entry, failed)
               ELSE IF rs[i].hasNotify
                       THEN Stamp(executeNotify(rs[i].notify, msg), entry, i, failed)
                            \o evaluateRulesFrom(rs, i + 1, msg, entry, failed)
                       ELSE evaluateRulesFrom(rs, i + 1, msg, entry, failed)

\* An evaluateRules that makes a failed gateway call once more.
evaluateRulesRetrying(rs, msg, entry, failed) ==
    IF failed
       THEN evaluateRulesFrom(rs, 1, msg, entry, failed) \o evaluateRulesFrom(rs, 1, msg, entry, failed)
       ELSE evaluateRulesFrom(rs, 1, msg, entry, failed)

evaluateRules(rs, msg, entry, failed) == evaluateRulesFrom(rs, 1, msg, entry, failed)

\* The mail rules an operator may configure.
Notify(template, agent) ==
    [target |-> "42", channel |-> "telegram", template |-> template, agent |-> agent]

MailRuleCatalogue ==
    { [name |-> "boss", match |-> [from |-> << <<"*", "@", "X">> >>, labels |-> <<>>],
       hasNotify |-> TRUE, notify |-> Notify(<<>>, "main")],
      [name |-> "inbox", match |-> [from |-> <<>>, labels |-> <<"INBOX">>],
       hasNotify |-> TRUE, notify |-> Notify(<<"x", tokOpen, ".Subject", tokClose>>, "main")],
      [name |-> "all", match |-> [from |-> <<>>, labels |-> <<>>],
       hasNotify |-> TRUE, notify |-> Notify(<<"x", tokOpen, ".Subject">>, "ops")],
      [name |-> "a", match |-> [from |-> << <<"z">>, <<"a">> >>, labels |-> <<>>],
       hasNotify |-> TRUE, notify |-> Notify(<<"x", tokOpen, ".From", ".Bad", tokClose>>, "ops")],
      [name |-> "log", match |-> [from |-> <<>>, labels |-> <<>>],
       hasNotify |-> FALSE, notify |-> Notify(<<>>, "")] }

\* Rule lists of up to MaxRules different mail rules, in every order.
MailRuleLists ==
    {rs \in UNION {[1..n -> MailRuleCatalogue] : n \in 0..MaxRules} :
        \A i, j \in 1..Len(rs) : rs[i] = rs[j] => i = j}

\* The messages history may report.
Mailbox ==
    { [id |-> "m1", from |-> "A@x", subject |-> "Hi", snippet |-> "", labels |-> <<"INBOX">>],
      [id |-> "m2", from |-> "b@y", subject |-> "", snippet |-> "", labels |-> <<>>] }

MaxMsgs == 2

MaxPos == 3

\* What GetHistory may return on success.
Histories == UNION {[1..n -> Mailbox] : n \in 0..MaxMsgs}

Positions == 1..MaxPos

NoCursor == 0 - 1

\* What os.WriteFile may do: write the file, fail leaving it alone, or fail
\* after truncating it, which leaves a file loadState cannot decode.
WriteOutcomes == {"written", "failed", "truncated"}

\* saveState (lines 73-77): the state file after writing HistoryID hid.
saveState(old, hid, w) ==
    CASE w = "written" -> hid
      [] w = "failed" -> old
      [] OTHER -> NoCursor

\* GetCurrentHistoryID followed by saveState: an error, or a position and the write's outcome.
HighWater ==
    {[ok |-> FALSE, hid |-> 1, w |-> "written"]}
        \cup [ok : {TRUE}, hid : Positions, w : WriteOutcomes]

\* A poller that leaves the state file alone after GetCurrentHistoryID.
FreshCursorKeep(old, res) == old

\* A poller that saves what GetCurrentHistoryID returned without looking at err.
FreshCursorAlways(old, res) == saveState(old, res.hid, res.w)

\* The state file after GetCurrentHistoryID returned res: the position is
\* saved when the call succeeded (lines 88-94, 119-126, 134-137).
FreshCursor(old, res) == IF res.ok THEN saveState(old, res.hid, res.w) ELSE old

\* A poll that never initialises.
NeedsInitNever(c) == FALSE

\* A poll that initialises on every tick.
NeedsInitAlways(c) == TRUE

\* Line 117: whether poll finds no usable state.
NeedsInit(c) == c = NoCursor \/ c = 0

\* The ids of the messages the calls of the current tick were made for.
SentIds == {pMsgs[sent[n].entry].id : n \in 1..Len(sent)}

\* The ids of the messages that calls were made for by the ticks that fetched
\* from the position the state file still holds: GetHistory returns these
\* messages again as long as the position stays.
Redelivered == IF cursor = pHID THEN notified \cup SentIds ELSE {}

\* A poll that persists the new position whenever it differs from the loaded one.
ShouldPersistChanged(newHID, hid) == newHID # hid

\* A poll that persists the new position whenever the fetch succeeded.
ShouldPersistAlways(newHID, hid) == TRUE

\* Line 142: whether poll persists newHID.
ShouldPersist(newHID, hid) == newHID > hid

PollerInit ==
    /\ mailRules \in MailRuleLists
    /\ cursor \in {NoCursor} \cup Positions
    /\ ppc = "start"
    /\ pHID = 0
    /\ pNew = 0
    /\ pMsgs = <<>>
    /\ pIdx = 1
    /\ sent = <<>>
    /\ pKind = "none"
    /\ pWrite = "none"
    /\ tickBuf = FALSE
    /\ cancelled = FALSE
    /\ notified = {}
    /\ lost = FALSE

PollerIdle ==
    /\ mailRules = <<>>
    /\ cursor = NoCursor
    /\ ppc = "off"
    /\ pHID = 0
    /\ pNew = 0
    /\ pMsgs = <<>>
    /\ pIdx = 1
    /\ sent = <<>>
    /\ pKind = "none"
    /\ pWrite = "none"
    /\ tickBuf = FALSE
    /\ cancelled = FALSE
    /\ notified = {}
    /\ lost = FALSE

\* Start, lines 84-98: load the state; initialise the cursor when none can be
\* loaded, resume from it otherwise.
StartPoller(res) ==
    /\ ppc = "start"
    /\ ppc' = "idle"
    /\ IF cursor # NoCursor
          THEN /\ res.ok /\ res.w = "written" /\ res.hid = 1
               /\ pKind' = "resume"
               /\ pHID' = cursor
               /\ UNCHANGED <<cursor, pNew, pWrite>>
          ELSE /\ cursor' = FreshCursor(cursor, res)
               /\ pKind' = IF res.ok THEN "startinit" ELSE "startfail"
               /\ pNew' = IF res.ok THEN res.hid ELSE 0
               /\ pWrite' = IF res.ok THEN res.w ELSE "none"
               /\ UNCHANGED pHID
    /\ UNCHANGED <<mailRules, pMsgs, pIdx, sent, loopVars, notPollVars>>

\* A loop that hands each fire to a goroutine of its own, "go p.poll(ctx)".
LoopReadyDetached(pcv) == pcv \notin {"off", "start", "stopped"}

\* Lines 102-110: poll is called from the loop itself, so the loop is back in
\* select only when the call has returned.
LoopReady(pcv) == pcv = "idle"

\* Lines 102-117: the loop, in select, receives a fire of the ticker and poll
\* loads the state.  The fire is the one the channel holds, or, when the
\* channel is empty and ctx is live, the next one made while the loop waits.
\* select picks among its ready cases at random, so a held fire may be
\* received although ctx is already cancelled.
PollBegin ==
    /\ LoopReady(ppc)
    /\ tickBuf \/ ~cancelled
    /\ ppc' = IF NeedsInit(cursor) THEN "init" ELSE "fetch"
    /\ pHID' = IF cursor = NoCursor THEN 0 ELSE cursor
    /\ pNew' = 0
    /\ pMsgs' = <<>>
    /\ pIdx' = 1
    /\ sent' = <<>>
    /\ pKind' = "none"
    /\ pWrite' = "none"
    /\ tickBuf' = FALSE
    /\ notified' = Redelivered
    /\ UNCHANGED <<mailRules, cursor, cancelled, lost, notPollVars>>

\* poll, lines 118-127: no usable state, so fetch the current position and save it.
PollInitialize(res) ==
    /\ ppc = "init"
    /\ ppc' = "idle"
    /\ pKind' = IF res.ok THEN "init" ELSE "initfail"
    /\ cursor' = FreshCursor(cursor, res)
    /\ pNew' = IF res.ok THEN res.hid ELSE 0
    /\ pWrite' = IF res.ok THEN res.w ELSE "none"
    /\ UNCHANGED <<mailRules, pHID, pMsgs, pIdx, sent, loopVars, notPollVars>>

\* poll, line 129: GetHistory succeeds with msgs and newHID.
PollFetchOk(msgs, newHID) ==
    /\ ppc = "fetch"
    /\ ppc' = "advance"
    /\ pKind' = "ok"
    /\ pMsgs' = msgs
    /\ pNew' = newHID
    /\ UNCHANGED <<mailRules, cursor, pHID, pIdx, sent, pWrite, loopVars, notPollVars>>

\* poll, lines 130-132: GetHistory fails with 404 / notFound.
PollFetchExpired ==
    /\ ppc = "fetch"
    /\ ppc' = "reset"
    /\ pKind' = "expired"
    /\ UNCHANGED <<mailRules, cursor, pHID, pNew, pMsgs, pIdx, sent, pWrite, loopVars, notPollVars>>

\* A poll that treats every error of GetHistory as an expired position and
\* drops the state file.
PollFetchErrorResets ==
    /\ ppc = "fetch"
    /\ ppc' = "idle"
    /\ pKind' = "error"
    /\ cursor' = NoCursor
    /\ UNCHANGED <<mailRules, pHID, pNew, pMsgs, pIdx, sent, pWrite, loopVars, notPollVars>>

\* poll, lines 130 and 140-141: GetHistory fails with another error.
PollFetchError ==
    /\ ppc = "fetch"
    /\ ppc' = "idle"
    /\ pKind' = "error"
    /\ UNCHANGED <<mailRules, cursor, pHID, pNew, pMsgs, pIdx, sent, pWrite, loopVars, notPollVars>>

\* A poll that drops the state when the fetch of the current position fails.
PollResetDropsState(res) ==
    /\ ppc = "reset"
    /\ ppc' = "idle"
    /\ pKind' = IF res.ok THEN "reset" ELSE "resetfail"
    /\ cursor' = IF res.ok THEN saveState(cursor, res.hid, res.w) ELSE NoCursor
    /\ pNew' = IF res.ok THEN res.hid ELSE 0
    /\ pWrite' = IF res.ok THEN res.w ELSE "none"
    /\ UNCHANGED <<mailRules, pHID, pMsgs, pIdx, sent, loopVars, notPollVars>>

\* poll, lines 134-138: after the 404, fetch the current position and save it.
PollReset(res) ==
    /\ ppc = "reset"
    /\ ppc' = "idle"
    /\ pKind' = IF res.ok THEN "reset" ELSE "resetfail"
    /\ cursor' = FreshCursor(cursor, res)
    /\ pNew' = IF res.ok THEN res.hid ELSE 0
    /\ pWrite' = IF res.ok THEN res.w ELSE "none"
    /\ UNCHANGED <<mailRules, pHID, pMsgs, pIdx, sent, loopVars, notPollVars>>

\* poll, lines 143-150: persist the new position if it is ahead, then return
\* when there are no messages.
PollAdvance(w) ==
    /\ ppc = "advance"
    /\ ppc' = IF Len(pMsgs) = 0 THEN "idle" ELSE "eval"
    /\ IF ShouldPersist(pNew, pHID)
          THEN cursor' = saveState(cursor, pNew, w) /\ pWrite' = w
          ELSE w = "written" /\ UNCHANGED <<cursor, pWrite>>
    /\ UNCHANGED <<mailRules, pHID, pNew, pMsgs, pIdx, sent, pKind, loopVars, notPollVars>>

\* poll, lines 153-155: evaluateRules for the next message.
PollEvaluate(failed) ==
    /\ ppc = "eval"
    /\ ppc' = IF pIdx = Len(pMsgs) THEN "idle" ELSE "eval"
    /\ pIdx' = pIdx + 1
    /\ \E calls \in {evaluateRules(mailRules, pMsgs[pIdx], pIdx, failed)} :
          /\ calls = <<>> => ~failed
          /\ sent' = sent \o calls
    /\ UNCHANGED <<mailRules, cursor, pHID, pNew, pMsgs, pKind, pWrite, loopVars, notPollVars>>

\* The ticker (line 100) fires while poll runs: its channel holds one fire and
\* drops the others.
TimerFire ==
    /\ ppc \in {"init", "fetch", "reset", "advance", "eval"}
    /\ tickBuf' = TRUE
    /\ UNCHANGED <<mailRules, cursor, ppc, pHID, pNew, pMsgs, pIdx, sent, pKind, pWrite,
                   cancelled, notified, lost, notPollVars>>

\* The owner of ctx cancels it (part_009: Run cancels on shutdown).
Cancel ==
    /\ ppc \notin {"off", "stopped"}
    /\ ~cancelled
    /\ cancelled' = TRUE
    /\ UNCHANGED <<mailRules, cursor, ppc, pHID, pNew, pMsgs, pIdx, sent, pKind, pWrite,
                   tickBuf, notified, lost, notPollVars>>

\* A loop whose select has no case for ctx.Done().
PollStopNever ==
    /\ FALSE
    /\ UNCHANGED vars

\* Lines 104-106: select receives from ctx.Done() and the goroutine returns.
PollStop ==
    /\ ppc = "idle"
    /\ cancelled
    /\ ppc' = "stopped"
    /\ UNCHANGED <<mailRules, cursor, pHID, pNew, pMsgs, pIdx, sent, pKind, pWrite,
                   loopVars, notPollVars>>

\* The process dies at any point and is started again: the goroutine and its
\* locals are gone, the state file is what the last saveState left, and Start
\* runs anew.  The entries of a tick that had saved its new position and not
\* yet evaluated them all are not fetched again.
Crash ==
    /\ ppc # "off"
    /\ ppc' = "start"
    /\ pHID' = 0
    /\ pNew' = 0
    /\ pMsgs' = <<>>
    /\ pIdx' = 1
    /\ sent' = <<>>
    /\ pKind' = "none"
    /\ pWrite' = "none"
    /\ tickBuf' = FALSE
    /\ cancelled' = FALSE
    /\ notified' = Redelivered
    /\ lost' = (lost \/ (ppc = "eval" /\ pWrite = "written"))
    /\ UNCHANGED <<mailRules, cursor, notPollVars>>

PollerNext ==
    \/ \E res \in HighWater : StartPoller(res)
    \/ PollBegin
    \/ \E res \in HighWater : PollInitialize(res)
    \/ \E msgs \in Histories, newHID \in Positions : PollFetchOk(msgs, newHID)
    \/ PollFetchExpired
    \/ PollFetchError
    \/ \E res \in HighWater : PollReset(res)
    \/ \E w \in WriteOutcomes : PollAdvance(w)
    \/ \E failed \in BOOLEAN : PollEvaluate(failed)

(***************************************************************************)
(* Poller.matchRule, auth.Middleware and Poller.stateFile on their own.    *)
(***************************************************************************)
Nil == [nil |-> TRUE]

\* The patterns of match.From and the label lists the matcher is tried with.
FromPatterns == { <<"*", "@", "X">>, <<"a">>, <<"*">>, <<"@", "Y">>, <<"*", "a">>, <<"x", "@">> }

MaxPatterns == 2

FromLists == UNION {[1..n -> FromPatterns] : n \in 0..MaxPatterns}

LabelLists == { <<>>, <<"INBOX">>, <<"INBOX", "STARRED">>, <<"STARRED">> }

MailMatches == [from : FromLists, labels : LabelLists]

MatchedMessages == [from : {"A@x", "b@y", "x@A", ""}, labels : LabelLists \cup { <<"STARRED", "INBOX">> }]

MailMatchInit ==
    /\ mrIn \in [match : MailMatches, msg : MatchedMessages]
    /\ mrOut = Nil

MailMatchIdle ==
    /\ mrIn = Nil
    /\ mrOut = Nil

\* One call of p.matchRule(rule.Match, msg).
CallMatchRule ==
    /\ mrOut = Nil
    /\ mrOut' = [result |-> matchRule(mrIn.match, mrIn.msg)]
    /\ UNCHANGED <<mrIn, auIn, auOut, sfIn, sfOut, limVars, matchVars, renderVars, trelloVars,
                   pollVars, cfgVars, oaVars>>

\* The request paths, as sequences of their pieces.
PathPieces == {"/", "api", "webhook", "auth", "health", "x"}

MaxPieces == 4

Paths == {p \in UNION {[1..n -> PathPieces] : n \in 1..MaxPieces} : p[1] = "/"}

\* Run installs the middleware only for a non-empty Server.InternalToken.
InternalTokens == {"t1", "t2"}

\* The X-Relay-Token header, empty when the request has none.
HeaderTokens == {"", "t1", "t2"}

\* subtle.ConstantTimeCompare.
ConstantTimeCompare(a, b) == IF a = b THEN 1 ELSE 0

\* A middleware that lets every request with a token through.
MiddlewareAnyToken(internalToken, path, token) ==
    IF HasPrefix(path, <<"/", "webhook", "/">>) \/ HasPrefix(path, <<"/", "auth", "/">>)
          \/ path = <<"/", "health">>
       THEN [status |-> 200, reached |-> TRUE]
       ELSE IF HasPrefix(path, <<"/", "api", "/">>)
               THEN IF token = ""
                       THEN [status |-> 401, reached |-> FALSE]
                       ELSE [status |-> 200, reached |-> TRUE]
               ELSE [status |-> 200, reached |-> TRUE]

\* Middleware (lines 80-98): whether next.ServeHTTP is reached, and the
\* status written when it is not; the inner handler answers 200.
Middleware(internalToken, path, token) ==
    IF HasPrefix(path, <<"/", "webhook", "/">>) \/ HasPrefix(path, <<"/", "auth", "/">>)
          \/ path = <<"/", "health">>
       THEN [status |-> 200, reached |-> TRUE]
       ELSE IF HasPrefix(path, <<"/", "api", "/">>)
               THEN IF token = "" \/ ConstantTimeCompare(token, internalToken) # 1
                       THEN [status |-> 401, reached |-> FALSE]
                       ELSE [status |-> 200, reached |-> TRUE]
               ELSE [status |-> 200, reached |-> TRUE]

AuthInit ==
    /\ auIn \in [internalToken : InternalTokens, path : Paths, token : HeaderTokens]
    /\ auOut = Nil

AuthIdle ==
    /\ auIn = Nil
    /\ auOut = Nil

\* One request through the middleware.
ServeThroughMiddleware ==
    /\ auOut = Nil
    /\ auOut' = Middleware(auIn.internalToken, auIn.path, auIn.token)
    /\ UNCHANGED <<mrIn, mrOut, auIn, sfIn, sfOut, limVars, matchVars, renderVars, trelloVars,
                   pollVars, cfgVars, oaVars>>

\* strings.ReplaceAll for a non-empty old, scanning from 0-based position i.
RECURSIVE ReplaceAllFrom(_, _, _, _)
ReplaceAllFrom(s, old, new, i) ==
    IF i >= Len(s)
       THEN <<>>
       ELSE IF OccursAt(s, old, i)
               THEN new \o ReplaceAllFrom(s, old, new, i + Len(old))
               ELSE <<s[i + 1]>> \o ReplaceAllFrom(s, old, new, i + 1)

ReplaceAll(s, old, new) == ReplaceAllFrom(s, old, new, 0)

\* Poller.stateFile (lines 55-62) for stateDir "data", as a sequence of the
\* path's pieces and the characters of the account.
stateFile(accountEmail) ==
    IF accountEmail = <<>>
       THEN <<"data", "/", "gmail-state.json">>
       ELSE <<"data", "/", "gmail-state-">>
            \o ReplaceAll(ReplaceAll(accountEmail, <<"/">>, <<"_">>), <<"@">>, <<"_", "a", "t", "_">>)
            \o <<".json">>

\* The account emails of gmail.accounts: a local part, "@" and a domain.
EmailChars == {"a", "/", "_", "@"}

MaxEmail == 4

Emails ==
    {e \in UNION {[1..n -> EmailChars] : n \in 3..MaxEmail} :
        /\ e[1] # "@"
        /\ e[Len(e)] # "@"
        /\ \A i, j \in 1..Len(e) : (e[i] = "@" /\ j > i) => e[j] = "a"
        /\ \E i \in 1..Len(e) : e[i] = "@"}

\* Run starts one poller per entry of ResolvedAccounts; the entries of two
\* different accounts.
StateFileInit ==
    /\ sfIn \in {a \in [1..2 -> Emails] : a[1] # a[2]}
    /\ sfOut = Nil

StateFileIdle ==
    /\ sfIn = Nil
    /\ sfOut = Nil

\* Run: both pollers are made, each with its account's stateFile().
StartPollers ==
    /\ sfOut = Nil
    /\ sfOut' = [paths |-> [i \in 1..2 |-> stateFile(sfIn[i])], writers |-> [i \in 1..2 |-> {}]]
    /\ UNCHANGED <<mrIn, mrOut, auIn, auOut, sfIn, limVars, matchVars, renderVars, trelloVars,
                   pollVars, cfgVars, oaVars>>

\* saveState of poller i: os.WriteFile(p.stateFile(), ...).  writers[j] are
\* the pollers that have written the file of poller j.
SaveState(i) ==
    /\ sfOut # Nil
    /\ sfOut' = [sfOut EXCEPT !.writers =
                    [j \in 1..2 |-> IF sfOut.paths[j] = sfOut.paths[i]
                                       THEN sfOut.writers[j] \cup {i}
                                       ELSE sfOut.writers[j]]]
    /\ UNCHANGED <<mrIn, mrOut, auIn, auOut, sfIn, limVars, matchVars, renderVars, trelloVars,
                   pollVars, cfgVars, oaVars>>

\* auth.GoogleAuth: generateState, consumeState, handleLogin, handleCallback.
OaStates == {"st1", "st2"}

\* The state parameter of a callback: a state a login may issue, another
\* string, or none.
CallbackStates == OaStates \cup {"invalid", ""}

AllowedEmails == {"a@x", "b@x"}

\* The account parameter of a login, empty when there is none.
LoginAccounts == {"", "a@x", "z@x"}

\* What the exchange and userinfo calls give: an error, or the email of the
\* account that authenticated.
ExchangeResults == {"exchange-error", "userinfo-error", "a@x", "b@x", "z@x"}

NoEntry == "<none>"

\* A consumeState that leaves the entry in the map, as verifyState does.
consumeStateKeeps(m, state) ==
    IF state \in DOMAIN m /\ m[state] # NoEntry
       THEN [email |-> m[state], ok |-> TRUE, map |-> m]
       ELSE [email |-> "", ok |-> FALSE, map |-> m]

\* consumeState (lines 467-475): look the state up and delete it, under mu.
consumeState(m, state) ==
    IF state \in DOMAIN m /\ m[state] # NoEntry
       THEN [email |-> m[state], ok |-> TRUE, map |-> [m EXCEPT ![state] = NoEntry]]
       ELSE [email |-> "", ok |-> FALSE, map |-> m]

OAuthInit ==
    /\ stateToEmail = [st \in OaStates |-> NoEntry]
    /\ fresh = {}
    /\ googleTokens = {}
    /\ oaResp = [kind |-> "none", state |-> "", status |-> 0]

OAuthIdle == OAuthInit

\* handleLogin (lines 517-526): a disallowed account is turned away; otherwise
\* generateState (lines 453-465) draws a random state, records the account
\* for it and the browser is redirected with it.
HandleLogin(account, state) ==
    /\ IF account # "" /\ account \notin AllowedEmails
          THEN /\ oaResp' = [kind |-> "login", state |-> "", status |-> 403]
               /\ UNCHANGED <<stateToEmail, fresh>>
          ELSE /\ stateToEmail' = [stateToEmail EXCEPT ![state] = account]
               /\ fresh' = fresh \cup {state}
               /\ oaResp' = [kind |-> "login", state |-> state, status |-> 307]
    /\ UNCHANGED <<googleTokens, limVars, matchVars, renderVars, trelloVars, pollVars, cfgVars, fnVars>>

\* The status handleCallback writes once the state was accepted (lines
\* 534-587) and whether it saves the token.
CallbackOutcome(expectedEmail, code, got, saved) ==
    IF code = "" THEN [status |-> 400, save |-> FALSE]
    ELSE IF got \in {"exchange-error", "userinfo-error"} THEN [status |-> 500, save |-> FALSE]
    ELSE IF expectedEmail # "" /\ got # expectedEmail THEN [status |-> 403, save |-> FALSE]
    ELSE IF got \notin AllowedEmails THEN [status |-> 403, save |-> FALSE]
    ELSE IF ~saved THEN [status |-> 500, save |-> FALSE]
    ELSE [status |-> 307, save |-> TRUE]

\* handleCallback (lines 528-588).
HandleCallback(state, code, got, saved) ==
    /\ \E c \in {consumeState(stateToEmail, state)} :
          IF ~c.ok
             THEN /\ oaResp' = [kind |-> "invalid-state", state |-> state, status |-> 400]
                  /\ UNCHANGED <<stateToEmail, fresh, googleTokens>>
             ELSE /\ stateToEmail' = c.map
                  /\ fresh' = fresh \ {state}
                  /\ \E o \in {CallbackOutcome(c.email, code, got, saved)} :
                        /\ oaResp' = [kind |-> "accepted", state |-> state, status |-> o.status]
                        /\ googleTokens' = IF o.save THEN googleTokens \cup {got} ELSE googleTokens
    /\ UNCHANGED <<limVars, matchVars, renderVars, trelloVars, pollVars, cfgVars, fnVars>>

OAuthNext ==
    \/ \E account \in LoginAccounts, state \in OaStates : HandleLogin(account, state)
    \/ \E state \in CallbackStates, code \in {"", "code"}, got \in ExchangeResults, saved \in BOOLEAN :
          HandleCallback(state, code, got, saved)

FnIdle == MailMatchIdle /\ AuthIdle /\ StateFileIdle /\ OAuthIdle

Quiet == LimiterInit /\ MatchIdle /\ RenderIdle /\ TrelloIdle /\ PollerIdle /\ CfgIdle

InitOAuth == OAuthInit /\ MailMatchIdle /\ AuthIdle /\ StateFileIdle /\ Quiet

SpecOAuth == InitOAuth /\ [][OAuthNext]_vars

InitMailMatch == MailMatchInit /\ AuthIdle /\ StateFileIdle /\ OAuthIdle /\ Quiet

SpecMailMatch == InitMailMatch /\ [][CallMatchRule]_vars

InitAuth == AuthInit /\ MailMatchIdle /\ StateFileIdle /\ OAuthIdle /\ Quiet

SpecAuth == InitAuth /\ [][ServeThroughMiddleware]_vars

InitStateFile == StateFileInit /\ MailMatchIdle /\ AuthIdle /\ OAuthIdle /\ Quiet

StateFileNext ==
    \/ StartPollers
    \/ \E i \in 1..2 : SaveState(i)

SpecStateFile == InitStateFile /\ [][StateFileNext]_vars

(***************************************************************************)
(* Specifications.                                                         *)
(***************************************************************************)
\* The limiter alone: callers of Allow, the clock and the cleanup goroutine.
InitLimiter == LimiterInit /\ MatchIdle /\ RenderIdle /\ TrelloIdle /\ PollerIdle /\ CfgIdle /\ FnIdle

SpecLimiter == InitLimiter /\ [][LimiterNext]_vars

\* matchCondition applied to the conditions an operator may write.
InitMatch == MatchInit /\ LimiterInit /\ RenderIdle /\ TrelloIdle /\ PollerIdle /\ CfgIdle /\ FnIdle

SpecMatch == InitMatch /\ [][MatchNext]_vars

\* renderMessage applied to the templates an operator may write.
InitRender == RenderInit /\ LimiterInit /\ MatchIdle /\ TrelloIdle /\ PollerIdle /\ CfgIdle /\ FnIdle

SpecRender == InitRender /\ [][RenderNext]_vars

\* The Trello handler with its limiter, serving requests as time passes.
InitTrello == TrelloInit /\ CfgTrello /\ FnIdle /\ LimiterInit /\ MatchIdle /\ RenderIdle /\ PollerIdle

SpecTrello == InitTrello /\ [][TrelloNext]_vars

\* The GitHub handler with the limiter, serving requests as time passes, in
\* either notify mode.
CfgGitHub ==
    /\ secret = ""
    /\ ghSecret = "g1"
    /\ ghMode \in {"all", "failures"}

InitGitHub == TrelloIdle /\ CfgGitHub /\ FnIdle /\ LimiterInit /\ MatchIdle /\ RenderIdle /\ PollerIdle

SpecGitHub == InitGitHub /\ [][GitHubNext]_vars

\* The Trello handler with the rules of the handler's tests: a rule for moves
\* into ready and a rule for comments in questions with a delay of 180.
condQuestions == strListEq \o strSp \o Quoted(strQuestions)

CommentDelay == 180

CommentRules ==
    {r \in RuleCatalogue : r.event = cardMoved /\ r.condition = condReady}
       \cup { [event |-> commentAdded, condition |-> condQuestions,
               template |-> <<"Comment on ", tokOpen, ".CardName", tokClose>>,
               agent |-> "main", timeout |-> CommentDelay, delay |-> CommentDelay] }

CommentRuleLists ==
    {rs \in UNION {[1..n -> CommentRules] : n \in 0..MaxRules} :
        \A i, j \in 1..Len(rs) : rs[i] = rs[j] => i = j}

InitComment ==
    /\ rules \in CommentRuleLists
    /\ resp = NoResponse
    /\ CfgTrello
    /\ FnIdle
    /\ LimiterInit
    /\ MatchIdle
    /\ RenderIdle
    /\ PollerIdle

SpecComment == InitComment /\ [][TrelloNext]_vars

\* Both webhook handlers behind one limiter, as Run wires them, with and
\* without secrets, at one instant.
CfgPush ==
    /\ secret \in {"", "s1"}
    /\ ghSecret \in {"", "g1"}
    /\ ghMode = "failures"

InitPush ==
    /\ TrelloInit
    /\ Len(rules) = 1
    /\ rules[1].event = cardMoved
    /\ CfgPush
    /\ FnIdle
    /\ LimiterInit
    /\ MatchIdle
    /\ RenderIdle
    /\ PollerIdle

PushNext ==
    \/ \E r \in Requests : ServeIgnored(r)
    \/ \E r \in Requests : ServeRateLimited(r)
    \/ \E r \in Requests : ServeAllowed(r)
    \/ \E r \in GhRequests : ServeGitHubIgnored(r)
    \/ \E r \in GhRequests : ServeGitHubRateLimited(r)
    \/ \E r \in GhRequests : ServeGitHubAllowed(r)

SpecPush == InitPush /\ [][PushNext]_vars

\* One mail poller: its start and its ticks.
InitPoller == PollerInit /\ LimiterInit /\ MatchIdle /\ RenderIdle /\ TrelloIdle /\ CfgIdle /\ FnIdle

SpecPoller == InitPoller /\ [][PollerNext]_vars

\* Ticks that fetch at most one message, always the same one.
ShortHistories == {h \in Histories : Len(h) <= 1 /\ \A n \in 1..Len(h) : h[n].id = "m1"}

\* One mail poller with one rule whose process may be cancelled, die and be
\* started again, and whose ticker fires during ticks.
InitLoop ==
    /\ PollerInit
    /\ Len(mailRules) = 1
    /\ LimiterInit
    /\ MatchIdle
    /\ RenderIdle
    /\ TrelloIdle
    /\ CfgIdle
    /\ FnIdle

LoopNext ==
    \/ \E res \in HighWater : StartPoller(res)
    \/ PollBegin
    \/ \E res \in HighWater : PollInitialize(res)
    \/ \E msgs \in ShortHistories, newHID \in Positions : PollFetchOk(msgs, newHID)
    \/ PollFetchExpired
    \/ PollFetchError
    \/ \E res \in HighWater : PollReset(res)
    \/ \E w \in WriteOutcomes : PollAdvance(w)
    \/ \E failed \in BOOLEAN : PollEvaluate(failed)
    \/ TimerFire
    \/ Cancel
    \/ PollStop
    \/ Crash

SpecLoop == InitLoop /\ [][LoopNext]_vars

\* The same poller in a process that stays alive.  Every call made inside
\* Start and poll returns; the ticker keeps firing while the loop waits;
\* select, which chooses among its ready cases at random, does not pass over
\* ctx.Done() for ever; and GetCurrentHistoryID followed by the write of the
\* state file does not fail for ever.
InitLoopFair ==
    /\ PollerInit
    /\ Len(mailRules) = 1
    /\ LimiterInit
    /\ MatchIdle
    /\ RenderIdle
    /\ TrelloIdle
    /\ CfgIdle
    /\ FnIdle

TickSteps ==
    \/ \E res \in HighWater : StartPoller(res)
    \/ \E res \in HighWater : PollInitialize(res)
    \/ \E msgs \in ShortHistories, newHID \in Positions : PollFetchOk(msgs, newHID)
    \/ PollFetchExpired
    \/ PollFetchError
    \/ \E res \in HighWater : PollReset(res)
    \/ \E w \in WriteOutcomes : PollAdvance(w)
    \/ \E failed \in BOOLEAN : PollEvaluate(failed)

HighWaterSucceeds ==
    \E res \in HighWater :
       /\ res.ok
       /\ res.w = "written"
       /\ StartPoller(res) \/ PollInitialize(res) \/ PollReset(res)

LoopFairNext ==
    \/ TickSteps
    \/ PollBegin
    \/ TimerFire
    \/ Cancel
    \/ PollStop

SpecLoopFair ==
    /\ InitLoopFair
    /\ [][LoopFairNext]_vars
    /\ WF_vars(TickSteps)
    /\ WF_vars(PollBegin)
    /\ SF_vars(PollStop)
    /\ SF_vars(HighWaterSucceeds)

\* The relay process: the Trello handler and a mail poller side by side, each
\* configured with one rule, serving deliveries whose payload is well-formed
\* and ticks that fetch at most one message.
Deliveries == {r \in Requests : r.method = "POST" /\ r.sig = TrelloSign("s1", ownText) /\ r.jsonOk}

InitRelay ==
    /\ LimiterInit
    /\ MatchIdle
    /\ RenderIdle
    /\ TrelloInit
    /\ CfgTrello
    /\ FnIdle
    /\ Len(rules) = 1
    /\ PollerInit
    /\ Len(mailRules) = 1
    /\ cursor = NoCursor

RelayNext ==
    \/ \E r \in Deliveries : ServeIgnored(r)
    \/ \E r \in Deliveries : ServeRateLimited(r)
    \/ \E r \in Deliveries : ServeAllowed(r)
    \/ \E res \in HighWater : StartPoller(res)
    \/ PollBegin
    \/ \E res \in HighWater : PollInitialize(res)
    \/ \E msgs \in ShortHistories, newHID \in Positions : PollFetchOk(msgs, newHID)
    \/ PollFetchExpired
    \/ PollFetchError
    \/ \E res \in HighWater : PollReset(res)
    \/ \E w \in WriteOutcomes : PollAdvance(w)
    \/ \E failed \in BOOLEAN : PollEvaluate(failed)

SpecRelay == InitRelay /\ [][RelayNext]_vars

(***************************************************************************)
(* Claims about ratelimit.Limiter, checked under SpecLimiter.              *)
(***************************************************************************)
\* The greatest element of a non-empty set of numbers.
MaxOf(S) == CHOOSE x \in S : \A y \in S : y <= x

\* The allowed calls on the key of call i that took effect before call i.
AllowedBefore(i) == {j \in 1..(i - 1) : hist[j].key = hist[i].key /\ hist[j].res}

\* The allowed calls on key k so far.
AllowedOn(k) == {j \in 1..Len(hist) : hist[j].key = k /\ hist[j].res}

\* Key of call i had no unexpired entry when call i looked it up.
Fresh(i) ==
    \/ AllowedBefore(i) = {}
    \/ hist[i].chk - hist[MaxOf(AllowedBefore(i))].at >= TTL

\* C1: Allow(k) returns false exactly when the most recent allowed Allow(k)
\* recorded its time less than ttl before this call's lookup, whatever calls
\* were made on other keys; otherwise it returns true and the map holds the
\* time the call recorded.  A denied call leaves the recorded time alone: the
\* entry of k is always the time of the most recent allowed call on k.
C1_AllowHonoursTTL ==
    /\ \A i \in 1..Len(hist) :
          hist[i].res =
             ~(/\ AllowedBefore(i) # {}
               /\ hist[i].chk - hist[MaxOf(AllowedBefore(i))].at < TTL)
    /\ \A k \in Keys :
          seen[k] # Absent =>
             /\ AllowedOn(k) # {}
             /\ seen[k] = hist[MaxOf(AllowedOn(k))].at

\* C1 witness: on one key, an allowed call, a denied call within ttl of it, and
\* an allowed call once ttl has elapsed since the first.
C1_Witness ==
    \E i, j, l \in 1..Len(hist) :
        /\ i < j /\ j < l
        /\ hist[i].key = hist[j].key /\ hist[j].key = hist[l].key
        /\ hist[i].res /\ ~hist[j].res /\ hist[l].res
        /\ hist[j].chk - hist[i].at < TTL
        /\ hist[l].chk - hist[i].at >= TTL

\* C2: among the calls Allow(k) made within one ttl window, starting with a
\* call that finds no unexpired entry for k, exactly one returns true: that
\* first call is allowed and every other call of the window is denied.
C2_OneWinnerPerWindow ==
    \A i \in 1..Len(hist) :
        Fresh(i) =>
            /\ hist[i].res
            /\ \A j \in (i + 1)..Len(hist) :
                  (hist[j].key = hist[i].key /\ hist[j].chk - hist[i].chk < TTL)
                     => ~hist[j].res

\* C2 witness: two callers were inside Allow(k) at the same time, in one ttl
\* window that started without an entry for k; one was allowed, one denied.
C2_Witness ==
    \E i, j \in 1..Len(hist) :
        /\ i < j
        /\ hist[i].key = hist[j].key
        /\ Fresh(i)
        /\ hist[j].conc
        /\ hist[j].chk - hist[i].chk < TTL
        /\ hist[i].res /\ ~hist[j].res

\* C3: at every moment Allow decides each key as a limiter whose cleanup never
\* runs would: an entry of the map is the one that limiter holds, and an entry
\* the cleanup has deleted is one for which Allow returns true anyway.
C3_CleanupInvisible ==
    \A k \in Keys :
        /\ Denied(seen, k, now) = Denied(shadow, k, now)
        /\ seen[k] \in {Absent, shadow[k]}

\* C3 witness: the cleanup has deleted the entry of a key and a later Allow on
\* that key has just decided to allow it.
C3_Witness ==
    \E p \in Procs :
        /\ pc[p] = "store"
        /\ seen[callKey[p]] = Absent
        /\ shadow[callKey[p]] # Absent

(***************************************************************************)
(* Claims about matchCondition, checked under SpecMatch.                   *)
(***************************************************************************)
\* Whether the trimmed clause t reads  list == '<l>'  with any amount of
\* white space on either side of the "==" and nothing else.
HasShape(t, l) ==
    LET mid == Slice(t, Len(strList), Len(t) - Len(Quoted(l)))
    IN /\ Len(t) >= Len(strList) + Len(strEq) + Len(Quoted(l))
       /\ HasPrefix(t, strList)
       /\ HasSuffix(t, Quoted(l))
       /\ \E i \in 0..(Len(mid) - 2) :
             /\ OccursAt(mid, strEq, i)
             /\ \A j \in 1..Len(mid) : j \notin {i + 1, i + 2} => IsSpace(mid[j])

\* The '||'-separated clauses of a condition, each trimmed.
ClausesOf(condition) ==
    {TrimSpace(Split(condition, strOr)[i]) : i \in 1..Len(Split(condition, strOr))}

\* C6: matchCondition returns true iff the condition is empty or one of its
\* '||'-separated clauses has the shape  list == '<literal>'  with the literal
\* equal to the list name; a clause of any other shape contributes no match.
C6_MatchIffShapedClause ==
    mDone =>
        (mRes <=> (mCond = <<>> \/ \E t \in ClausesOf(mCond) : HasShape(t, mList)))

\* An operator "==" or "||" starts at 0-based position i of s.
IsOpAt(s, i) == OccursAt(s, strEq, i) \/ OccursAt(s, strOr, i)

\* The character at 1-based position k of s is white space, in a run of white
\* space that ends where an operator starts.
RECURSIVE SpaceBeforeOp(_, _)
SpaceBeforeOp(s, k) ==
    /\ k >= 1 /\ k <= Len(s)
    /\ IsSpace(s[k])
    /\ (IsOpAt(s, k) \/ SpaceBeforeOp(s, k + 1))

\* The same, for a run of white space that starts where an operator ends.
RECURSIVE SpaceAfterOp(_, _)
SpaceAfterOp(s, k) ==
    /\ k >= 1 /\ k <= Len(s)
    /\ IsSpace(s[k])
    /\ (IsOpAt(s, k - 3) \/ SpaceAfterOp(s, k - 1))

\* s without the white space around its operators.
RECURSIVE SqueezeFrom(_, _)
SqueezeFrom(s, k) ==
    IF k > Len(s)
       THEN <<>>
       ELSE (IF SpaceBeforeOp(s, k) \/ SpaceAfterOp(s, k) THEN <<>> ELSE <<s[k]>>)
               \o SqueezeFrom(s, k + 1)

Squeeze(s) == SqueezeFrom(s, 1)

\* s with one more space on either side of each of its operators.
RECURSIVE PadFrom(_, _)
PadFrom(s, i) ==
    IF i >= Len(s)
       THEN <<>>
       ELSE IF IsOpAt(s, i)
               THEN strSp \o Slice(s, i, i + 2) \o strSp \o PadFrom(s, i + 2)
               ELSE <<s[i + 1]>> \o PadFrom(s, i + 1)

Pad(s) == PadFrom(s, 0)

\* C7: the result of matchCondition is unchanged by removing the white space
\* around '==' and '||', and by adding white space around them.
C7_WhitespaceInsensitive ==
    mDone =>
        /\ mRes = matchCondition(Squeeze(mCond), mList)
        /\ mRes = matchCondition(Pad(mCond), mList)

(***************************************************************************)
(* Claims about renderMessage, checked under SpecRender.                   *)
(***************************************************************************)
\* Whether a template consists of plain text and placeholders {{.Field}} only.
RECURSIVE OnlyPlaceholders(_)
OnlyPlaceholders(t) ==
    IF t = <<>>
       THEN TRUE
       ELSE IF Head(t) = tokOpen
               THEN /\ Len(t) >= 3
                    /\ t[2] \in FieldTokens
                    /\ t[3] = tokClose
                    /\ OnlyPlaceholders(SubSeq(t, 4, Len(t)))
               ELSE OnlyPlaceholders(Tail(t))

\* Such a template with every placeholder replaced by the field's value.
RECURSIVE Substituted(_, _)
Substituted(t, data) ==
    IF t = <<>>
       THEN <<>>
       ELSE IF Head(t) = tokOpen
               THEN Pieces(Lookup(data, t[2])) \o Substituted(SubSeq(t, 4, Len(t)), data)
               ELSE <<Head(t)>> \o Substituted(Tail(t), data)

\* C8: renderMessage always returns a string: the template with its
\* placeholders substituted from the field map when the template parses and
\* executes, and the template itself, unchanged, when it does not.
C8_RenderFallsBack ==
    tDone =>
        tOut = IF OnlyPlaceholders(tTmpl) THEN Substituted(tTmpl, tData) ELSE tTmpl

\* C8 witness: a template that parses but fails during execution, after text
\* and a field were already written, came back unchanged.
C8_Witness ==
    /\ tDone
    /\ Parse(tTmpl).ok
    /\ ~Execute(Parse(tTmpl).nodes, tData).ok
    /\ Execute(Parse(tTmpl).nodes, tData).out # <<>>
    /\ tOut = tTmpl

(***************************************************************************)
(* Claims about the Trello handler, checked under SpecTrello.              *)
(***************************************************************************)
\* Whether rule i is for the event type and its condition matches the list.
RuleMatches(i, eventType, listName) ==
    /\ rules[i].event = eventType
    /\ matchCondition(rules[i].condition, listName)

\* C4: for the rule list, event type and list name of any request that
\* reaches rule matching, findRule returns the matching rule of lowest index
\* and none iff no rule matches; the request dispatches at most one job, and
\* that job is the returned rule's.
C4_FirstMatchWins ==
    resp.outcome \in {"norule", "dispatched"} =>
        /\ resp.rule = 0 <=>
              ~\E i \in 1..Len(rules) : RuleMatches(i, resp.eventType, resp.listName)
        /\ resp.rule # 0 =>
              /\ resp.rule \in 1..Len(rules)
              /\ RuleMatches(resp.rule, resp.eventType, resp.listName)
              /\ \A j \in 1..(resp.rule - 1) : ~RuleMatches(j, resp.eventType, resp.listName)
        /\ Len(resp.jobs) <= 1
        /\ \A n \in 1..Len(resp.jobs) : resp.jobs[n].agent = rules[resp.rule].agent

\* C4 witness: two different rules both match a card move into ready, and
\* the first of them was dispatched.
C4_Witness ==
    /\ resp.outcome = "dispatched"
    /\ Len(rules) = 2
    /\ rules[1] # rules[2]
    /\ RuleMatches(1, resp.eventType, resp.listName)
    /\ RuleMatches(2, resp.eventType, resp.listName)
    /\ resp.rule = 1
    /\ Len(resp.jobs) = 1

(***************************************************************************)
(* Claims about the mail poller, checked under SpecPoller.                 *)
(***************************************************************************)
\* C5: for each entry polled in a tick, at most one rule's action is
\* dispatched: no two gateway calls of the tick are for the same entry.
C5_OneDispatchPerEntry ==
    \A a, b \in 1..Len(sent) : sent[a].entry = sent[b].entry => a = b

\* A tick whose history fetch succeeded has returned and no cursor write of it failed.
FetchTickDone == ppc = "idle" /\ pKind = "ok" /\ pWrite \in {"none", "written"}

\* C10: after a tick from position whose fetch succeeded with position', the
\* persisted cursor is position' whenever position' > position or no entries
\* came back.
C10_PersistWheneverFetched ==
    FetchTickDone /\ (pNew > pHID \/ Len(pMsgs) = 0) => cursor = pNew

\* C10, amended: after such a tick the persisted cursor is position' when
\* position' > position and is still position otherwise, entries or not.
C10_PersistOnlyForward ==
    FetchTickDone => cursor = IF pNew > pHID THEN pNew ELSE pHID

\* C10 witness: a fetch without entries reported a position behind the
\* cursor, and the tick left the cursor where it was.
C10_Witness ==
    /\ FetchTickDone
    /\ Len(pMsgs) = 0
    /\ pNew < pHID
    /\ cursor = pHID

(***************************************************************************)
(* Claims about both paths, checked under SpecRelay.                       *)
(***************************************************************************)
\* Whether a template parses and executes with the field map.
Renders(tmpl, data) == Parse(tmpl).ok /\ Execute(Parse(tmpl).nodes, data).ok

\* The field map ServeHTTP built for the request of resp.
RespFields ==
    TrelloFields(resp.req.cardID, CardNameOf(resp.req.cardID), resp.req.listAfterID,
                 ListAfterNameOf(resp.req.listAfterID), "Backlog")

\* Push path: a request that passed the limiter and matches a rule led to one
\* gateway call, with the raw template as message when rendering fails.
PushNotifies ==
    /\ resp.outcome \in {"norule", "dispatched"}
    /\ \E i \in 1..Len(rules) : RuleMatches(i, resp.eventType, resp.listName)
    => /\ Len(resp.jobs) = 1
       /\ ~Renders(rules[resp.rule].template, RespFields) =>
             resp.jobs[1].msg = rules[resp.rule].template

\* The entries of the tick evaluated so far, paired with the notify rules they match.
EvaluatedMatches ==
    {<<e, i>> \in (1..(pIdx - 1)) \X (1..Len(mailRules)) :
        mailRules[i].hasNotify /\ matchRule(mailRules[i].match, pMsgs[e])}

\* The gateway calls of the tick for entry e and rule i.
CallsFor(e, i) == {n \in 1..Len(sent) : sent[n].entry = e /\ sent[n].rule = i}

\* C9: on both paths a broken template never prevents a notification: every
\* event that passed deduplication and matches a rule led to a gateway call,
\* with the raw template as message when rendering fails.
C9_BrokenTemplateStillNotifies ==
    /\ PushNotifies
    /\ \A m \in EvaluatedMatches :
          /\ CallsFor(m[1], m[2]) # {}
          /\ ~Renders(NotifyTemplate(mailRules[m[2]].notify), MailFields(pMsgs[m[1]])) =>
                \A n \in CallsFor(m[1], m[2]) :
                    sent[n].job.msg.message = NotifyTemplate(mailRules[m[2]].notify)

\* C9, amended: on the push path a broken template never prevents the
\* notification, which then carries the raw template; on the poll path a
\* matching entry leads to a gateway call exactly when the rule's template
\* renders, so an entry whose rule has a broken template is not notified.
C9_PushFallsBackPollDrops ==
    /\ PushNotifies
    /\ \A m \in EvaluatedMatches :
          CallsFor(m[1], m[2]) # {}
             <=> Renders(NotifyTemplate(mailRules[m[2]].notify), MailFields(pMsgs[m[1]]))

\* C9 witness: the handler dispatched a rule whose template does not render,
\* with the raw template as message, and the poller evaluated an entry whose
\* matching rule has a template that does not render and made no call for it.
C9_Witness ==
    /\ resp.outcome = "dispatched"
    /\ ~Renders(rules[resp.rule].template, RespFields)
    /\ resp.jobs[1].msg = rules[resp.rule].template
    /\ \E m \in EvaluatedMatches :
          /\ ~Renders(NotifyTemplate(mailRules[m[2]].notify), MailFields(pMsgs[m[1]]))
          /\ CallsFor(m[1], m[2]) = {}

(***************************************************************************)
(* Claims about the poller's cursor, checked under SpecPoller.             *)
(***************************************************************************)
\* C11: the persisted cursor position never decreases, except in the reset
\* that follows a position-too-old fetch error: every step that takes the
\* state file from one position to another either moves it forward, leaves
\* it, or is that reset.
C11_CursorNeverBackward ==
    [][(cursor # NoCursor /\ cursor' # NoCursor /\ ppc # "reset") => cursor' >= cursor]_vars

\* C11 witness: a fetch that returned entries reported a position behind the
\* cursor, the entries were evaluated, and the cursor is where it was.
C11_Witness ==
    /\ ppc = "idle"
    /\ pKind = "ok"
    /\ Len(pMsgs) > 0
    /\ pIdx > Len(pMsgs)
    /\ pNew < pHID
    /\ cursor = pHID

\* A step that starts a tick: the loop receives a fire and calls poll.
TickStarts == ppc' \in {"init", "fetch"} /\ ppc \notin {"init", "fetch"}

\* C13: when the history fetch of a tick fails with 404 / notFound, the tick
\* fetches the current position and persists it as the cursor, evaluates no
\* entry and dispatches nothing, and the tick ends there: the window between
\* the old and the new position is not replayed.
C13_ExpiredResetsToHighWater ==
    /\ [](pKind \in {"expired", "reset"} => pMsgs = <<>> /\ pIdx = 1 /\ sent = <<>>)
    /\ []((pKind = "reset" /\ pWrite = "written") => (ppc = "idle" /\ cursor = pNew))
    /\ [][pKind = "expired" => pKind' \in {"expired", "reset", "resetfail"}]_vars

\* C13 witness: a tick from position 1 hit the expired condition and the
\* cursor now is a fresh position more than one step ahead.
C13_Witness ==
    /\ ppc = "idle"
    /\ pKind = "reset"
    /\ pWrite = "written"
    /\ pHID = 1
    /\ pNew > pHID + 1
    /\ cursor = pNew

\* C14: when the history fetch of a tick fails with another error, the
\* persisted cursor is what it was, nothing is evaluated or dispatched, the
\* tick ends, and the next tick fetches from the same position.
C14_OtherErrorKeepsCursor ==
    /\ [](pKind = "error" =>
            ppc = "idle" /\ cursor = pHID /\ pMsgs = <<>> /\ sent = <<>> /\ pWrite = "none")
    /\ [][(pKind = "error" /\ TickStarts) => (ppc' = "fetch" /\ pHID' = pHID /\ cursor' = pHID)]_vars

\* C14 witness: a tick from a position ahead of the first one failed with
\* such an error.
C14_Witness ==
    /\ ppc = "idle"
    /\ pKind = "error"
    /\ pHID > 1
    /\ cursor = pHID

\* C15: when no cursor is persisted, Start and every tick fetch the current
\* position and persist it, the tick fetches no history and dispatches
\* nothing, and the next fetch of history starts at that position.
C15_FirstRunTakesHighWater ==
    /\ [][(cursor = NoCursor /\ TickStarts) => (ppc' = "init" /\ pHID' = 0)]_vars
    /\ [](ppc = "init" => pKind = "none" /\ pMsgs = <<>> /\ sent = <<>>)
    /\ [](pKind \in {"init", "startinit"} =>
            /\ ppc = "idle" /\ pMsgs = <<>> /\ sent = <<>>
            /\ pWrite = "written" => cursor = pNew)
    /\ [][(pKind \in {"init", "startinit"} /\ pWrite = "written" /\ TickStarts) =>
            (ppc' = "fetch" /\ pHID' = pNew)]_vars

\* C15 witness: a tick that found no cursor persisted a position that is not
\* the first one.
C15_Witness ==
    /\ ppc = "idle"
    /\ pKind = "init"
    /\ pHID = 0
    /\ pWrite = "written"
    /\ pNew > 1
    /\ cursor = pNew

\* C16: when no cursor is persisted and fetching the current position fails,
\* no cursor is written, nothing is dispatched, the tick returns, and the
\* next tick tries the initialisation again.
C16_FailedInitStaysUninitialized ==
    /\ [](pKind \in {"initfail", "startfail"} =>
            ppc = "idle" /\ cursor = NoCursor /\ pMsgs = <<>> /\ sent = <<>> /\ pWrite = "none")
    /\ [][(pKind \in {"initfail", "startfail"} /\ TickStarts) =>
            (ppc' = "init" /\ cursor' = NoCursor)]_vars

\* C16 witness: a tick that found no cursor failed to fetch the position,
\* after a failure of the same kind in Start or in an earlier tick.
C16_Witness ==
    /\ ppc = "idle"
    /\ pKind = "initfail"
    /\ cursor = NoCursor

(***************************************************************************)
(* Claims about the poller's loop and restarts, checked under SpecLoop.    *)
(***************************************************************************)
\* C12: in every reachable state, also after the process died between two
\* steps of a tick and was started again, every entry at or before the
\* persisted cursor has been through rule evaluation: no entry is ever left
\* behind a persisted cursor without having been evaluated.
C12_CursorBehindEvaluation == ~lost

\* The positions of the goroutine inside a call of poll.
InTick == {"init", "fetch", "reset", "advance", "eval"}

\* C17: the cursor survives a restart: when Start finds a persisted position
\* p it does not fetch the current position and leaves the file alone, and
\* the first tick after it fetches history from exactly p.
C17_ResumeFromPersisted ==
    /\ [][(ppc = "start" /\ cursor # NoCursor /\ ppc' # "start") =>
            (pKind' = "resume" /\ cursor' = cursor /\ pHID' = cursor)]_vars
    /\ [](pKind = "resume" => ppc \in {"idle", "stopped"} /\ cursor = pHID /\ pNew = 0 /\ pWrite = "none")
    /\ [][(pKind = "resume" /\ TickStarts) =>
            (ppc' = "fetch" /\ pHID' = pHID /\ cursor' = cursor)]_vars

\* C17 witness: a run that had advanced the cursor died in the middle of a
\* tick, and the run started after it has resumed from the position it found.
C17_Witness ==
    /\ lost
    /\ ppc = "idle"
    /\ pKind = "resume"
    /\ pHID > 1
    /\ cursor = pHID

\* C18: no two ticks overlap: a tick starts only when the previous one has
\* returned, and a fire of the ticker during a tick is only held in the
\* channel and changes nothing of the running tick.
C18_TicksNeverOverlap ==
    /\ [][TickStarts => ppc = "idle"]_vars
    /\ [][(ppc \in InTick /\ ppc' # "start" /\ tickBuf' # tickBuf) =>
            (tickBuf' /\ UNCHANGED <<cursor, ppc, pHID, pNew, pMsgs, pIdx, sent, pKind, pWrite>>)]_vars

\* C18 witness: the ticker fired during a tick that dispatched a call, the
\* tick has returned and the fire is still held.
C18_Witness ==
    /\ ppc = "idle"
    /\ tickBuf
    /\ pKind = "ok"
    /\ sent # <<>>

\* C19: once ctx is cancelled no further tick starts, also when a fire of
\* the ticker is pending, and a running tick is not stopped.
C19_NoTickAfterCancel ==
    /\ [][cancelled => ~TickStarts]_vars
    /\ [][(cancelled /\ ppc \in InTick) => ppc' \in InTick \cup {"idle", "start"}]_vars

(***************************************************************************)
(* Claims about repeated entries, checked under SpecPoller.                *)
(***************************************************************************)
\* C20: every polled entry passes a deduplicator before rule matching: a
\* message that two ticks fetch, because the position in the state file did
\* not move between them, is dispatched by at most one of them.
C20_PolledEntryDispatchedOnce == SentIds \cap notified = {}

(***************************************************************************)
(* Claims about deliveries to the Trello handler, checked under SpecTrello.*)
(***************************************************************************)
\* The key under which the limiter files a delivery: its card and action type.
KeyOf(req) == IF req.actionType = "updateCard" THEN keyMove ELSE keyComment

\* Whether the key was allowed less than ttl ago.
SeenWithinTTL(k) == shadow[k] # Absent /\ now - shadow[k] < TTL

\* Whether the request is let through by the signature check: no secret is
\* configured, or the request is signed with it.
PassesTrelloGate(req) == secret = "" \/ req.sig = TrelloSign(secret, ownText)

\* A well-formed delivery of a card move into a watched list other than questions.
MoveToWatched(req) ==
    /\ req.method = "POST" /\ PassesTrelloGate(req) /\ req.jsonOk
    /\ req.actionType = "updateCard"
    /\ req.listAfterID # ""
    /\ ListIDToName(req.listAfterID) \notin {<<>>, strQuestions}

\* The rules that match a card move into the list of the delivery.
MoveRules(req) ==
    {i \in 1..Len(rules) : RuleMatches(i, cardMoved, ListIDToName(req.listAfterID))}

\* C21: a card move into a watched list other than questions, with a
\* matching rule and a key not seen within ttl, produces exactly one gateway
\* call, for the first matching rule, whose timeout and delay are the rule's
\* values, 120 and 2 standing in for values left unset; such a move is
\* refused by the limiter only when its key was seen within ttl.
C21_MoveDispatchesWithRuleTimes ==
    /\ []((MoveToWatched(resp.req) /\ MoveRules(resp.req) # {} /\ resp.outcome # "ratelimited") =>
            /\ resp.status = 200
            /\ Len(resp.jobs) = 1
            /\ \A i \in MoveRules(resp.req) :
                  (\A j \in MoveRules(resp.req) : i <= j) =>
                     /\ resp.jobs[1].agent = rules[i].agent
                     /\ resp.jobs[1].timeout = IF rules[i].timeout = 0 THEN 120 ELSE rules[i].timeout
                     /\ resp.jobs[1].delay = IF rules[i].delay = 0 THEN 2 ELSE rules[i].delay)
    /\ [][(resp' # resp /\ MoveToWatched(resp'.req) /\ resp'.outcome = "ratelimited") =>
            SeenWithinTTL(KeyOf(resp'.req))]_vars

\* C21 witness: a move into ready was dispatched for a rule that leaves
\* timeout and delay unset, while a second rule with values of its own is
\* configured.
C21_Witness ==
    /\ MoveToWatched(resp.req)
    /\ resp.outcome = "dispatched"
    /\ rules[resp.rule].timeout = 0
    /\ rules[resp.rule].delay = 0
    /\ resp.jobs[1].timeout = 120
    /\ resp.jobs[1].delay = 2
    /\ \E i \in 1..Len(rules) : rules[i].timeout # 0 /\ rules[i].delay # 0

\* A step in which the handler serves a delivery that gets as far as the limiter.
LimiterConsulted ==
    /\ resp' # resp \/ shadow' # shadow
    /\ resp'.outcome \in {"ratelimited", "norule", "dispatched"}

\* C22: among the deliveries with one card id and action type that arrive
\* within ttl of the first allowed one, only that one reaches rule matching
\* and dispatch: a delivery is refused exactly when a delivery with its own
\* key was allowed less than ttl ago, a refused delivery dispatches nothing
\* and records nothing, and an allowed one records its own key only, so a
\* move and a comment on one card do not suppress each other.
C22_OneDeliveryPerKeyAndTTL ==
    /\ [][LimiterConsulted =>
            (resp'.outcome = "ratelimited" <=> SeenWithinTTL(KeyOf(resp'.req)))]_vars
    /\ [][(LimiterConsulted /\ resp'.outcome = "ratelimited") =>
            (resp'.jobs = <<>> /\ resp'.status = 200 /\ shadow' = shadow)]_vars
    /\ [][(LimiterConsulted /\ resp'.outcome # "ratelimited") =>
            shadow' = [shadow EXCEPT ![KeyOf(resp'.req)] = now]]_vars

\* C22 witness: a move was dispatched, a comment on the same card was let
\* through after it, and the move delivered again within ttl was refused.
C22_Witness ==
    /\ resp.outcome = "ratelimited"
    /\ resp.req.actionType = "updateCard"
    /\ SeenWithinTTL(keyMove)
    /\ shadow[keyComment] # Absent
    /\ shadow[keyComment] > shadow[keyMove]

\* A well-formed delivery of a card move into the list named questions.
MoveToQuestions(req) ==
    /\ req.method = "POST" /\ PassesTrelloGate(req) /\ req.jsonOk
    /\ req.actionType = "updateCard"
    /\ req.listAfterID # ""
    /\ ListIDToName(req.listAfterID) = strQuestions

\* C23: a card move whose destination is the list questions produces no
\* gateway call, whatever rules are configured, and is answered with 200.
C23_QuestionsNeverDispatched ==
    MoveToQuestions(resp.req) => (resp.jobs = <<>> /\ resp.rule = 0 /\ resp.status = 200)

\* C23 witness: a move into questions was answered while a card_moved rule
\* without a condition, which matches every list, is configured.
C23_Witness ==
    /\ MoveToQuestions(resp.req)
    /\ resp.status = 200
    /\ \E i \in 1..Len(rules) : rules[i].event = cardMoved /\ rules[i].condition = <<>>
    /\ \E i \in 1..Len(rules) : RuleMatches(i, cardMoved, strQuestions)

(***************************************************************************)
(* Claims about both webhook handlers, checked under SpecPush.             *)
(***************************************************************************)
\* Whether a request was delivered to /webhook/github.
IsGitHub(req) == "hook" \in DOMAIN req

\* Whether the request is a POST whose signature is the tag of its own text
\* under the handler's secret, or whose handler has no secret.
SignaturePassed(req) ==
    /\ req.method = "POST"
    /\ IF IsGitHub(req)
         THEN ghSecret = "" \/ req.sig = <<"sha256=", Mac(ghSecret, ownText)>>
         ELSE secret = "" \/ req.sig = <<"base64", Mac(secret, ownText)>>

\* Whether the request is a POST that its handler's secret turns away.
SignatureRefused(req) ==
    /\ req.method = "POST"
    /\ IF IsGitHub(req)
         THEN ghSecret # "" /\ req.sig # <<"sha256=", Mac(ghSecret, ownText)>>
         ELSE secret # "" /\ req.sig # <<"base64", Mac(secret, ownText)>>

\* C24: once the signature gate has passed, a webhook POST to either handler
\* is answered 200, whether the payload was unparseable, the event ignored
\* or suppressed, no rule matched, or the gateway call failed.
C24_AcknowledgedPastGate ==
    (resp.req # NoRequest /\ SignaturePassed(resp.req)) => resp.status = 200

\* C24 witness: a POST past the gate whose gateway call failed.
C24_Witness ==
    /\ resp.req # NoRequest
    /\ SignaturePassed(resp.req)
    /\ Len(resp.jobs) = 1
    /\ resp.jobs[1].failed

\* C25: with a non-empty secret a POST whose signature does not verify is
\* answered 403 without a gateway call, and no limiter entry is recorded
\* unless the request passed the gate; with an empty secret no request is
\* answered 403.
C25_PipelineBehindSignatureGate ==
    /\ []((resp.req # NoRequest /\ SignatureRefused(resp.req)) =>
            (resp.status = 403 /\ resp.jobs = <<>>))
    /\ [][seen' # seen => SignaturePassed(resp'.req)]_vars
    /\ [][(resp' # resp /\ SignatureRefused(resp'.req)) =>
            (seen' = seen /\ shadow' = shadow)]_vars
    /\ []((resp.req # NoRequest /\ ~IsGitHub(resp.req) /\ secret = "") => resp.status # 403)
    /\ []((resp.req # NoRequest /\ IsGitHub(resp.req) /\ ghSecret = "") => resp.status # 403)

\* C25 witness: a Trello POST signed with the right key over another text was
\* turned away while the limiter already held an entry.
C25_Witness ==
    /\ resp.req # NoRequest
    /\ ~IsGitHub(resp.req)
    /\ secret = "s1"
    /\ resp.req.sig = <<"base64", Mac("s1", "other")>>
    /\ resp.status = 403
    /\ \E k \in MapKeys : seen[k] # Absent

\* Whether the payload is a completed check or workflow run or a submitted
\* review.
Dispatchable(req) ==
    \/ req.event \in {"check_run", "workflow_run"} /\ req.action = "completed"
    \/ req.event = "pull_request_review" /\ req.action = "submitted"

\* C26: a GitHub delivery causes a gateway call only if it is a completed
\* check_run or workflow_run or a submitted pull_request_review; any other
\* event or action past the gate is answered 200 without a gateway call, and
\* no GitHub key is recorded for it.
C26_OnlyTerminalGitHubEvents ==
    /\ []((resp.req # NoRequest /\ IsGitHub(resp.req) /\ resp.jobs # <<>>) =>
            Dispatchable(resp.req))
    /\ []((resp.req # NoRequest /\ IsGitHub(resp.req) /\ SignaturePassed(resp.req)
            /\ ~Dispatchable(resp.req)) =>
            (resp.status = 200 /\ resp.jobs = <<>>))
    /\ [][(\E k \in GhKeys : seen'[k] # seen[k]) =>
            (IsGitHub(resp'.req) /\ Dispatchable(resp'.req))]_vars
    /\ [][(resp' # resp /\ IsGitHub(resp'.req) /\ ~Dispatchable(resp'.req)) =>
            (seen' = seen /\ shadow' = shadow)]_vars

\* C26 witness: a check_run that is not completed went past the gate and was
\* ignored after a review had been dispatched.
C26_Witness ==
    /\ resp.req # NoRequest
    /\ IsGitHub(resp.req)
    /\ SignaturePassed(resp.req)
    /\ resp.req.event = "check_run"
    /\ resp.req.action # "completed"
    /\ resp.outcome = "gh-ignored"
    /\ seen[GhKey("pull_request_review", 7)] # Absent

(***************************************************************************)
(* Claims about the GitHub handler, checked under SpecGitHub.              *)
(***************************************************************************)
\* C27: in notify mode "failures" a completed workflow or check run that the
\* limiter lets through is answered 200 with no gateway call when its
\* conclusion is success and with one gateway call when it is failure.
C27_FailuresModeSkipsSuccess ==
    (/\ resp.req # NoRequest
     /\ IsGitHub(resp.req)
     /\ ghMode = "failures"
     /\ SignaturePassed(resp.req)
     /\ resp.req.event \in {"check_run", "workflow_run"}
     /\ resp.req.action = "completed"
     /\ resp.outcome # "gh-ratelimited") =>
        /\ resp.status = 200
        /\ Len(resp.jobs) = IF resp.req.conclusion = "success" THEN 0 ELSE 1

(***************************************************************************)
(* Claims about matchRule, checked under SpecMailMatch.                    *)
(***************************************************************************)
\* Whether s ends with t, and whether t occurs in s.
EndsWith(s, t) == Len(t) <= Len(s) /\ SubSeq(s, Len(s) - Len(t) + 1, Len(s)) = t

IsSubstring(s, t) == \E i \in 0..(Len(s) - Len(t)) : SubSeq(s, i + 1, i + Len(t)) = t

\* Whether the pattern fits the sender, both taken in lower case: a pattern
\* that starts with "*" by its remainder ending the sender, any other by
\* occurring in it.
PatternFits(sender, pattern) ==
    IF Len(pattern) > 0 /\ pattern[1] = "*"
       THEN EndsWith(ToLower(sender), ToLower(SubSeq(pattern, 2, Len(pattern))))
       ELSE IsSubstring(ToLower(sender), ToLower(pattern))

\* C28: matchRule is true iff every required label is among the message's
\* labels and, when the From list is non-empty, at least one pattern fits the
\* sender case-insensitively (by suffix for a pattern starting with "*", as a
\* substring otherwise); an empty match matches every message.
C28_MatchRuleCharacterised ==
    mrOut # Nil =>
       /\ mrOut.result <=>
             /\ \A i \in 1..Len(mrIn.match.labels) :
                   \E j \in 1..Len(mrIn.msg.labels) : mrIn.msg.labels[j] = mrIn.match.labels[i]
             /\ \/ mrIn.match.from = <<>>
                \/ \E i \in 1..Len(mrIn.match.from) :
                      PatternFits(Chars(mrIn.msg.from), mrIn.match.from[i])
       /\ (mrIn.match.from = <<>> /\ mrIn.match.labels = <<>>) => mrOut.result

\* C28 witness: the sender "A@x" was matched by the second pattern, "*@X",
\* of a rule that also requires a label.
C28_Witness ==
    /\ mrOut # Nil
    /\ mrOut.result
    /\ mrIn.match.from = << <<"x", "@">>, <<"*", "@", "X">> >>
    /\ mrIn.match.labels = <<"INBOX">>
    /\ mrIn.msg.from = "A@x"

(***************************************************************************)
(* Claims about the auth middleware, checked under SpecAuth.               *)
(***************************************************************************)
\* Whether the path lies under the directory /dir/.
Under(path, dir) == Len(path) >= 3 /\ SubSeq(path, 1, 3) = <<"/", dir, "/">>

\* C29: a request under /api/ reaches the inner handler iff its
\* X-Relay-Token header is non-empty and equals the configured token, and is
\* answered 401 otherwise; requests under /webhook/ or /auth/ and to /health
\* reach the inner handler whatever token they carry.
C29_ApiNeedsToken ==
    auOut # Nil =>
       /\ Under(auIn.path, "api") =>
             /\ auOut.reached <=> (auIn.token # "" /\ auIn.token = auIn.internalToken)
             /\ ~auOut.reached => auOut.status = 401
       /\ (Under(auIn.path, "webhook") \/ Under(auIn.path, "auth")
              \/ auIn.path = <<"/", "health">>) => auOut.reached

\* C29 witness: a request under /api/ with a token other than the
\* configured one was answered 401.
C29_Witness ==
    /\ auOut # Nil
    /\ Under(auIn.path, "api")
    /\ auIn.token # ""
    /\ auIn.token # auIn.internalToken
    /\ auOut.status = 401
    /\ ~auOut.reached

(***************************************************************************)
(* Claims about the pollers' state files, checked under SpecStateFile.     *)
(***************************************************************************)
\* C30: the pollers of two different accounts have different state file
\* paths, and each file is written by one poller only.
C30_OneFilePerAccount ==
    sfOut # Nil =>
       /\ sfOut.paths[1] # sfOut.paths[2]
       /\ \A j \in 1..2 : Cardinality(sfOut.writers[j]) <= 1

(***************************************************************************)
(* Further claims about the mail poller, checked under SpecPoller.         *)
(***************************************************************************)
\* C31: a gateway call that fails during a tick is absorbed: no entry and
\* rule get more than one call in the tick, every evaluated entry that
\* matches a rule whose template renders has its call whatever happened to
\* the calls before it, a finished tick has evaluated all its entries, and
\* the cursor does not change while the entries are evaluated.
C31_FailedDispatchAbsorbed ==
    /\ [](\A e \in 1..Len(pMsgs), i \in 1..Len(mailRules) : Cardinality(CallsFor(e, i)) <= 1)
    /\ [](\A m \in EvaluatedMatches :
             Renders(NotifyTemplate(mailRules[m[2]].notify), MailFields(pMsgs[m[1]]))
                => CallsFor(m[1], m[2]) # {})
    /\ []((ppc = "idle" /\ pKind = "ok") => pIdx = Len(pMsgs) + 1 \/ pMsgs = <<>>)
    /\ [][(ppc = "eval" /\ ppc' \in {"eval", "idle"}) => cursor' = cursor]_vars

\* C31 witness: a tick that saved its new position has finished; the call
\* for its first entry failed and the second entry was dispatched after it.
C31_Witness ==
    /\ ppc = "idle"
    /\ pKind = "ok"
    /\ pWrite = "written"
    /\ cursor = pNew
    /\ \E n, m \in 1..Len(sent) :
          /\ sent[n].entry = 1
          /\ sent[n].failed
          /\ sent[m].entry = 2

\* C32: when the notify template of a matching rule does not parse or does
\* not execute, executeNotify makes no gateway call for the message, and the
\* rules after it are still tried for the same message.
C32_BrokenNotifyTemplateSendsNothing ==
    \A m \in EvaluatedMatches :
       ~Renders(NotifyTemplate(mailRules[m[2]].notify), MailFields(pMsgs[m[1]])) =>
          /\ CallsFor(m[1], m[2]) = {}
          /\ \A k \in EvaluatedMatches :
                (/\ k[1] = m[1]
                 /\ k[2] > m[2]
                 /\ Renders(NotifyTemplate(mailRules[k[2]].notify), MailFields(pMsgs[k[1]])))
                   => CallsFor(k[1], k[2]) # {}

\* C32 witness: an entry matched a rule whose template parses and fails to
\* execute, no call was made for it, and the next rule got its call.
C32_Witness ==
    \E m \in EvaluatedMatches :
       /\ Parse(NotifyTemplate(mailRules[m[2]].notify)).ok
       /\ ~Renders(NotifyTemplate(mailRules[m[2]].notify), MailFields(pMsgs[m[1]]))
       /\ CallsFor(m[1], m[2]) = {}
       /\ CallsFor(m[1], m[2] + 1) # {}

(***************************************************************************)
(* Claims about comments, checked under SpecComment.                       *)
(***************************************************************************)
\* A well-formed delivery of a comment on a card that the limiter let through.
CommentServed ==
    /\ resp.req # NoRequest
    /\ resp.req.method = "POST" /\ PassesTrelloGate(resp.req) /\ resp.req.jsonOk
    /\ resp.req.actionType = "commentCard"
    /\ resp.req.cardID # ""
    /\ resp.outcome # "ratelimited"

\* The comment rules that match the list of the delivery.
CommentRulesFor(req) ==
    {i \in 1..Len(rules) : RuleMatches(i, commentAdded, ListIDToName(req.listAfterID))}

\* C33: the exclusion of the list questions holds for moves only: a comment
\* on a card whose list resolves to questions and that matches a
\* comment_added rule produces exactly one gateway call with the delay of the
\* first such rule, and a comment whose list matches no comment_added rule
\* produces none.
C33_CommentsReachQuestions ==
    CommentServed =>
       /\ resp.status = 200
       /\ (ListIDToName(resp.req.listAfterID) = strQuestions /\ CommentRulesFor(resp.req) # {}) =>
             /\ Len(resp.jobs) = 1
             /\ \A i \in CommentRulesFor(resp.req) :
                   (\A j \in CommentRulesFor(resp.req) : i <= j) =>
                      resp.jobs[1].delay = IF rules[i].delay = 0 THEN 2 ELSE rules[i].delay
       /\ CommentRulesFor(resp.req) = {} => resp.jobs = <<>>

\* C33 witness: a comment on a card in questions was dispatched with the
\* delay of the comment rule, which stands second in the rule list.
C33_Witness ==
    /\ CommentServed
    /\ ListIDToName(resp.req.listAfterID) = strQuestions
    /\ Len(rules) = 2
    /\ rules[2].event = commentAdded
    /\ Len(resp.jobs) = 1
    /\ resp.jobs[1].delay = 180

(***************************************************************************)
(* Claims about the OAuth state, checked under SpecOAuth.                  *)
(***************************************************************************)
\* A callback has been answered in this step.
CallbackAnswered ==
    /\ oaResp'.kind \in {"accepted", "invalid-state"}
    /\ oaResp' # oaResp \/ stateToEmail' # stateToEmail \/ googleTokens' # googleTokens

\* C38: a callback gets past the state check exactly when its state was
\* issued by a login and not accepted since; it is then no longer
\* acceptable; a callback with any other state is answered 400 and saves no
\* token.
C38_StateSingleUse ==
    /\ [][CallbackAnswered =>
            /\ oaResp'.kind = "accepted" <=> oaResp'.state \in fresh
            /\ oaResp'.kind = "accepted" => stateToEmail'[oaResp'.state] = NoEntry
            /\ oaResp'.kind = "invalid-state" =>
                  (oaResp'.status = 400 /\ googleTokens' = googleTokens
                   /\ stateToEmail' = stateToEmail)]_vars
    /\ [](\A st \in OaStates : stateToEmail[st] # NoEntry <=> st \in fresh)

\* C38 witness: a state was accepted and a token saved, and a second
\* callback with the same state was answered 400.
C38_Witness ==
    /\ oaResp.kind = "invalid-state"
    /\ oaResp.state \in OaStates
    /\ oaResp.status = 400
    /\ googleTokens # {}
    /\ fresh = {}

(***************************************************************************)
(* Claims about the deduplication of push events.                          *)
(***************************************************************************)
\* The pull request a GitHub payload names.
PrOf(req) ==
    IF req.prTop # 0 THEN req.prTop ELSE IF req.prCheck # 0 THEN req.prCheck ELSE req.prWf

\* The limiter entry of an event type and a pull request.
PairKey(event, pr) ==
    CASE event = "check_run" /\ pr = 7 -> "github:check_run:7"
      [] event = "workflow_run" /\ pr = 7 -> "github:workflow_run:7"
      [] event = "workflow_run" /\ pr = 8 -> "github:workflow_run:8"
      [] event = "pull_request_review" /\ pr = 7 -> "github:pull_request_review:7"

\* Whether the limiter holds an entry of the pair that is younger than ttl.
PairSeenWithinTTL(event, pr) ==
    /\ PairKey(event, pr) \in DOMAIN shadow
    /\ SeenWithinTTL(PairKey(event, pr))

\* A step in which the GitHub handler serves a delivery that gets as far as
\* the limiter.
GhLimiterConsulted ==
    /\ resp' # resp \/ shadow' # shadow
    /\ resp'.outcome \in {"gh-ratelimited", "gh-dispatched"}

\* C34: a GitHub delivery that reaches the limiter is suppressed exactly
\* when a delivery with its own event type and PR number was let through
\* less than ttl ago; a suppressed delivery makes no gateway call and
\* records nothing, and a delivery let through makes one call and records
\* the entry of its own pair only, so deliveries that differ in event type
\* or in PR number do not suppress each other.
C34_GitHubDedupPerEventAndPR ==
    /\ [][GhLimiterConsulted =>
            (resp'.outcome = "gh-ratelimited" <=>
                PairSeenWithinTTL(resp'.req.event, PrOf(resp'.req)))]_vars
    /\ [][(GhLimiterConsulted /\ resp'.outcome = "gh-ratelimited") =>
            (resp'.jobs = <<>> /\ shadow' = shadow)]_vars
    /\ [][(GhLimiterConsulted /\ resp'.outcome = "gh-dispatched") =>
            /\ Len(resp'.jobs) = 1
            /\ shadow' = [shadow EXCEPT ![PairKey(resp'.req.event, PrOf(resp'.req))] = now]]_vars

\* C34 witness: a workflow run of PR 7 was dispatched, a workflow run of PR 8
\* and a review of PR 7 were let through after it, and the workflow run of
\* PR 7 delivered again within ttl was suppressed.
C34_Witness ==
    /\ resp.outcome = "gh-ratelimited"
    /\ resp.req.event = "workflow_run"
    /\ PrOf(resp.req) = 7
    /\ SeenWithinTTL("github:workflow_run:7")
    /\ shadow["github:workflow_run:8"] # Absent
    /\ shadow["github:pull_request_review:7"] # Absent
    /\ shadow["github:workflow_run:8"] >= shadow["github:workflow_run:7"]
    /\ shadow["github:pull_request_review:7"] >= shadow["github:workflow_run:7"]
    /\ now > shadow["github:workflow_run:7"]

\* Whether the request is one that normalization turns away: a POST that
\* fails the signature check, or a signed POST with a readable body that is,
\* for Trello, an action of another type, a move without a destination list,
\* a move to a list that is not configured or to questions, or a comment
\* without a card id, and, for GitHub, an event of another type or an action
\* that is not terminal.
IgnoredAtNormalization(req) ==
    \/ SignatureRefused(req)
    \/ /\ SignaturePassed(req)
       /\ req.jsonOk
       /\ IF IsGitHub(req)
            THEN ~Dispatchable(req)
            ELSE \/ req.actionType \notin {"updateCard", "commentCard"}
                 \/ /\ req.actionType = "updateCard"
                    /\ \/ req.listAfterID = ""
                       \/ ListIDToName(req.listAfterID) = <<>>
                       \/ ListIDToName(req.listAfterID) = strQuestions
                 \/ req.actionType = "commentCard" /\ req.cardID = ""

\* The limiter entry of a request that is not turned away.
DedupKey(req) ==
    IF IsGitHub(req) THEN PairKey(req.event, PrOf(req)) ELSE KeyOf(req)

\* C35: an event that is turned away at normalization is answered without a
\* gateway call and leaves the limiter's entries as they were; entries are
\* made only by events that are let through, so an event is suppressed only
\* when an event with its own key was let through before, never because of
\* one that was turned away.
C35_IgnoredEventsLeaveLimiter ==
    /\ []((resp.req # NoRequest /\ IgnoredAtNormalization(resp.req)) =>
            /\ resp.outcome \in {"ignored", "forbidden", "gh-ignored", "gh-forbidden"}
            /\ resp.jobs = <<>>)
    /\ [][(resp' # resp /\ IgnoredAtNormalization(resp'.req)) =>
            (seen' = seen /\ shadow' = shadow)]_vars
    /\ [][(seen' # seen \/ shadow' # shadow) =>
            /\ resp'.outcome \in {"dispatched", "norule", "gh-dispatched"}
            /\ ~IgnoredAtNormalization(resp'.req)
            /\ seen' = [seen EXCEPT ![DedupKey(resp'.req)] = now]]_vars
    /\ [][(resp' # resp /\ resp'.outcome \in {"ratelimited", "gh-ratelimited"}) =>
            (seen[DedupKey(resp'.req)] # Absent /\ shadow[DedupKey(resp'.req)] # Absent)]_vars
    /\ [][(resp' # resp /\ resp'.req.method = "POST" /\ ~IgnoredAtNormalization(resp'.req)
            /\ SignaturePassed(resp'.req) /\ resp'.req.jsonOk
            /\ seen[DedupKey(resp'.req)] = Absent) =>
            resp'.outcome \in {"dispatched", "norule", "gh-dispatched"}]_vars

\* C35 witness: a move to questions was turned away while the limiter held
\* the entry of a comment on the same card and none of the move.
C35_Witness ==
    /\ resp.req # NoRequest
    /\ ~IsGitHub(resp.req)
    /\ SignaturePassed(resp.req)
    /\ resp.req.actionType = "updateCard"
    /\ resp.req.listAfterID = Lists[strQuestions]
    /\ resp.outcome = "ignored"
    /\ seen[keyMove] = Absent
    /\ seen[keyComment] # Absent

\* Whether the limiter's map holds an entry of the key younger than ttl.
Held(k) == seen[k] # Absent /\ now - seen[k] < TTL

\* C36: an event that the limiter lets through has its key recorded at the
\* time of the delivery also when no rule matches it or its gateway call
\* fails; an entry younger than ttl is neither removed nor changed; and a
\* delivery whose key has such an entry is suppressed without a gateway
\* call.  So after an event that was let through, with or without a
\* dispatch, no delivery with its key is dispatched until ttl has elapsed.
C36_DedupEntryNeverReleased ==
    /\ [][(LimiterConsulted /\ resp'.outcome # "ratelimited") =>
            /\ seen'[KeyOf(resp'.req)] = now
            /\ now' = now
            /\ (resp'.outcome = "norule" <=> resp'.jobs = <<>>)]_vars
    /\ [][\A k \in Keys : Held(k) => seen'[k] = seen[k]]_vars
    /\ [][(LimiterConsulted /\ Held(KeyOf(resp'.req))) =>
            (resp'.outcome = "ratelimited" /\ resp'.jobs = <<>>)]_vars
    /\ [](\A k \in Keys : seen[k] # Absent => seen[k] <= now)

\* C36 witness: with no rule configured, a delivery that was let through and
\* matched nothing was followed, later and within ttl, by a delivery with
\* its key, which was suppressed.
C36_Witness ==
    /\ rules = <<>>
    /\ resp.outcome = "ratelimited"
    /\ Held(KeyOf(resp.req))
    /\ now > seen[KeyOf(resp.req)]

(***************************************************************************)
(* Claims about progress of the poller, checked under SpecLoopFair.        *)
(***************************************************************************)
\* The tick has persisted a fresh position.
FreshPersisted == pKind \in {"reset", "init"} /\ pWrite = "written" /\ cursor = pNew

C39_CancelledPollerStops == cancelled ~> (ppc = "stopped")

\* C39 witness: the goroutine has returned after a tick that was started
\* with the fire the ticker's channel held when ctx was already cancelled.
C39_Witness ==
    /\ ppc = "stopped"
    /\ cancelled
    /\ pKind = "ok"
    /\ sent # <<>>

====
